---- MODULE Spec2Model ----
(***************************************************************************)
(* Model of the real-time plotting and calibration engine of the Mightex   *)
(* line camera manager: camera_engine/mtsse.py (LineCamera, _FrameGrabber, *)
(* frame delivery), plottools.py (DataHandler, BlitManager, Crosshair,     *)
(* Graph, ReferenceGraph, RealTimePlot) and loadwaves.py (load_waves).     *)
(*                                                                         *)
(* Arrays are sequences of integers.  Axes limits are kept in thousandths  *)
(* (the unit of the tolerance tol = 1e-3 of Graph.set_raw_data), so every  *)
(* comparison of the source is an integer comparison here.                 *)
(***************************************************************************)
EXTENDS Integers, Sequences, FiniteSets, TLC

VARIABLES
    graphs,               \* RealTimePlot.primary_graph / reference_graph (Graph fields, axes limits, line data, crosshair)
                          \* and, under the key CANVAS, the figure canvas with its BlitManager
    plot_background,      \* RealTimePlot._background
    selected_graph,       \* RealTimePlot.selected_graph
    unit_control,         \* WavelengthPixelButton: which radio button is checked, per trace
    err,                  \* exception raised by the last operation ("none" when it returned normally)
    last_op,              \* the last operation executed (observer)
    last_received_frame,  \* LineCamera._last_received_frame
    awaiting_plot,        \* DataHandler.awaiting_plot
    frame_callbacks,      \* LineCamera._frame_callbacks
    hw,                   \* hardware-driver thread: position inside LineCamera.add_frame
    ui,                   \* UI thread: position inside DataHandler._plot_data
    next_seq,             \* sequence number of the next frame the driver delivers
    next_cb,              \* identity of the next receive_background closure
    obs,                  \* observers of the frame bridge (ticks, emissions, ...)
    grabbers              \* the _FrameGrabber threads created so far; LineCamera._frame_grabber is the last

plotvars == <<graphs, plot_background, selected_graph, unit_control, err, last_op>>
bridgevars == <<last_received_frame, awaiting_plot, frame_callbacks, hw, ui, next_seq, next_cb, obs, grabbers>>
vars == <<graphs, plot_background, selected_graph, unit_control, err, last_op,
          last_received_frame, awaiting_plot, frame_callbacks, hw, ui, next_seq, next_cb, obs, grabbers>>

----------------------------------------------------------------------------
(* Bounds of the model *)

\* sensor pixel count used by the model (mtsse.py sets PIXELS = 3648)
PIXELS == 2
\* largest number of data rows of a loaded file
MaxRows == 1
\* frames the driver delivers in one run
MaxFrames == 3
\* UI ticks in one run
MaxTicks == 3
\* receive_background closures registered in one run
MaxBgCallbacks == 2
\* operations of the user on the plot in one run
MaxOps == 2
\* operations of the user in one run of the crosshair specification
MaxMoves == 3
\* _FrameGrabber threads created in one run
MaxGrabbers == 2

(* Program constants *)
PIXEL == 0
WAVELENGTH == 1
PRIMARY == 0
REFERENCE == 1
\* limits are stored in units of tol = 1e-3
LimScale == 1000

\* key of the figure canvas (RealTimePlot.canvas, RealTimePlot._blit_manager)
CANVAS == 2

Selectors == {PRIMARY, REFERENCE}

----------------------------------------------------------------------------
(* numpy helpers *)

RECURSIVE SeqMin(_)
SeqMin(s) == IF Len(s) = 1 THEN s[1]
             ELSE LET m == SeqMin(Tail(s)) IN IF s[1] < m THEN s[1] ELSE m

RECURSIVE SeqMax(_)
SeqMax(s) == IF Len(s) = 1 THEN s[1]
             ELSE LET m == SeqMax(Tail(s)) IN IF s[1] > m THEN s[1] ELSE m

Abs(n) == IF n < 0 THEN -n ELSE n

zeros_like(a) == [i \in 1..Len(a) |-> 0]

arange(n) == [i \in 1..n |-> i - 1]

\* a - b of two one-dimensional arrays: elementwise, a length-1 operand is
\* broadcast; any other pair of lengths raises ValueError
Broadcastable(a, b) == Len(a) = Len(b) \/ Len(a) = 1 \/ Len(b) = 1

Subtract(a, b) ==
    LET n == IF Len(a) = Len(b) THEN Len(a)
             ELSE IF Len(a) = 1 THEN Len(b) ELSE Len(a)
        at(s, i) == IF Len(s) = n THEN s[i] ELSE s[1]
    IN [i \in 1..n |-> at(a, i) - at(b, i)]

\* (mutant) clamp without the upper limit
clamp_low_only(min_value, max_value, num) == IF min_value > num THEN min_value ELSE num

clamp(min_value, max_value, num) ==
    LET lo == IF min_value > num THEN min_value ELSE num
    IN IF lo < max_value THEN lo ELSE max_value

\* (mutant) cubic with a0 and a1 exchanged
cubic_swapped(x, p) == p[2] + p[1] * x + p[3] * x * x + p[4] * x * x * x

cubic(x, p) == p[1] + p[2] * x + p[3] * x * x + p[4] * x * x * x

cubic_array(xs, p) == [i \in 1..Len(xs) |-> cubic(xs[i], p)]

----------------------------------------------------------------------------
(* matplotlib Axes.set_xlim / set_ylim, in thousandths: identical low and  *)
(* high limits are expanded (by 5% of their magnitude, or to -0.05..0.05   *)
(* when both are 0), any other pair is stored as given.                    *)
set_lim(lo, hi) ==
    IF lo = hi
    THEN IF lo = 0 THEN << -(LimScale \div 20), LimScale \div 20 >>
         ELSE << lo - Abs(lo) \div 20, hi + Abs(hi) \div 20 >>
    ELSE <<lo, hi>>

----------------------------------------------------------------------------
(* Operation results: a state of the two graphs and the exception raised   *)

Ok(gs) == [gs |-> gs, err |-> "none"]
Raise(gs, e) == [gs |-> gs, err |-> e]

\* run F on the state unless an exception is already propagating
Then(st, F(_)) == IF st.err # "none" THEN st ELSE F(st.gs)

----------------------------------------------------------------------------
(* BlitManager.  The canvas record holds what the renderer's buffer was   *)
(* last rendered with by canvas.draw() (rendered: the static content, i.e. *)
(* the axes limits at the time of the draw; empty before the first draw),  *)
(* the background snapshot (BlitManager._background: a copy of that        *)
(* buffer), the registered artists with their visibility flags, the        *)
(* artists the last _draw_animated drew, and counts of the full draws, the *)
(* incremental updates, the restores of the snapshot and the restores of a *)
(* snapshot that differs from the current static content, made since the   *)
(* current operation began.  Every registered artist is animated.          *)

NoSnapshot == [valid |-> FALSE, lims |-> << >>]

\* an artist: the figure it belongs to, and which part of which trace it is
Artist(figure, owner, part) == [figure |-> figure, owner |-> owner, part |-> part]

\* Graph.get_artists: the line and the two lines of the crosshair
Graph_get_artists(s) ==
    <<Artist("figure", s, "line"), Artist("figure", s, "vertical"), Artist("figure", s, "horizontal")>>

\* an artist that is no part of a trace, in the plot's figure or in another
ExtraArtist(figure) == Artist(figure, CANVAS, "extra")

Canvas_init ==
    [figure          |-> "figure",
     snapshot        |-> NoSnapshot,
     rendered        |-> << >>,
     artists         |-> << >>,
     visible_artists |-> << >>,
     drawn           |-> << >>,
     draws           |-> 0,
     updates         |-> 0,
     restores        |-> 0,
     stale           |-> 0]

\* the static content the canvas would render now
StaticContent(gs) == <<gs[PRIMARY].xlim, gs[PRIMARY].ylim, gs[REFERENCE].xlim, gs[REFERENCE].ylim>>

\* (mutant) add_artists registers the artist before it tests the figure
RECURSIVE BlitManager_add_artists_late_test(_, _)
BlitManager_add_artists_late_test(gs, artists) ==
    IF artists = << >> THEN Ok(gs)
    ELSE LET gs2 == [gs EXCEPT ![CANVAS].artists = Append(@, Head(artists)),
                               ![CANVAS].visible_artists = Append(@, TRUE)]
         IN IF Head(artists).figure # gs[CANVAS].figure THEN Raise(gs2, "RuntimeError")
            ELSE BlitManager_add_artists_late_test(gs2, Tail(artists))

\* BlitManager.add_artists: the artists are registered in turn, each with a
\* visibility flag that is set; an artist of another figure raises
\* RuntimeError and ends the loop
RECURSIVE BlitManager_add_artists(_, _)
BlitManager_add_artists(gs, artists) ==
    IF artists = << >> THEN Ok(gs)
    ELSE IF Head(artists).figure # gs[CANVAS].figure THEN Raise(gs, "RuntimeError")
    ELSE BlitManager_add_artists([gs EXCEPT ![CANVAS].artists = Append(@, Head(artists)),
                                            ![CANVAS].visible_artists = Append(@, TRUE)],
                                 Tail(artists))

\* visible_artists[index] = value, with the indexing of a Python list: a
\* negative index counts from the end, an index outside the list raises
SetVisible(gs, index, value) ==
    LET n == Len(gs[CANVAS].visible_artists)
        i == IF index < 0 THEN index + n ELSE index
    IN IF i < 0 \/ i >= n THEN Raise(gs, "IndexError")
       ELSE Ok([gs EXCEPT ![CANVAS].visible_artists[i + 1] = value])

BlitManager_hide_artist(gs, index) == SetVisible(gs, index, FALSE)

BlitManager_show_artist(gs, index) == SetVisible(gs, index, TRUE)

\* Line2D.draw recaches the line, which raises ValueError when its x and y
\* data cannot be broadcast together; the crosshair lines and other artists
\* draw without error
Drawable(gs, artist) ==
    artist.part = "line" => Broadcastable(gs[artist.owner].line_x, gs[artist.owner].line_y)

\* the artists _draw_animated reaches, as indices from 0: those whose flag is set
VisibleIndices(canvas) ==
    SelectSeq([i \in 1..Len(canvas.artists) |-> i - 1], LAMBDA i: canvas.visible_artists[i + 1])

\* (mutant) _draw_animated draws every registered artist
draw_animated_all(gs) ==
    LET c == gs[CANVAS]
        all == [i \in 1..Len(c.artists) |-> i - 1]
        bad == {k \in 1..Len(all) : ~Drawable(gs, c.artists[all[k] + 1])}
    IN IF bad = {} THEN Ok([gs EXCEPT ![CANVAS].drawn = all])
       ELSE Raise([gs EXCEPT ![CANVAS].drawn = SubSeq(all, 1, (CHOOSE k \in bad : \A j \in bad : k <= j) - 1)],
                  "ValueError")

\* BlitManager._draw_animated: the artists whose flag is set are drawn in
\* the order of registration, up to the first whose draw raises
draw_animated(gs) ==
    LET c == gs[CANVAS]
        vis == VisibleIndices(c)
        bad == {k \in 1..Len(vis) : ~Drawable(gs, c.artists[vis[k] + 1])}
    IN IF bad = {} THEN Ok([gs EXCEPT ![CANVAS].drawn = vis])
       ELSE Raise([gs EXCEPT ![CANVAS].drawn = SubSeq(vis, 1, (CHOOSE k \in bad : \A j \in bad : k <= j) - 1)],
                  "ValueError")

\* BlitManager.on_draw: the background is copied from the renderer's
\* buffer, then the animated artists are drawn
BlitManager_on_draw(gs) ==
    draw_animated([gs EXCEPT ![CANVAS].snapshot = [valid |-> TRUE, lims |-> gs[CANVAS].rendered]])

\* (mutant) update restores the background without the test for None
BlitManager_update_restore_always(gs) ==
    draw_animated([gs EXCEPT ![CANVAS].updates = @ + 1, ![CANVAS].restores = @ + 1])

\* BlitManager.update: capture path when no background exists, else
\* restore the cached background, draw the animated artists and blit
BlitManager_update(gs) ==
    LET gs2 == [gs EXCEPT ![CANVAS].updates = @ + 1]
    IN IF ~gs[CANVAS].snapshot.valid THEN BlitManager_on_draw(gs2)
       ELSE draw_animated([gs2 EXCEPT ![CANVAS].restores = @ + 1,
                                      ![CANVAS].stale = IF gs[CANVAS].snapshot.lims # StaticContent(gs)
                                                        THEN @ + 1 ELSE @])

----------------------------------------------------------------------------
(* Crosshair.  glyph is the centre of the two crosshair lines, readout the *)
(* pair shown by the CrosshairReadout; both in thousandths.                *)

NoPosition == [set |-> FALSE, x |-> 0, y |-> 0]

\* the body of set_position_index after the test for an empty line: the
\* index is clamped and stored, line_x[index] and line_y[index] are read
\* and clamped to the axes limits, the glyph and the readout are set and
\* the blit manager updates
Crosshair_place(gs, s, index) ==
    LET g == gs[s]
        i == clamp(0, Len(g.line_x) - 1, index)
        gs2 == [gs EXCEPT ![s].index = i]
    IN IF i < 0 \/ i + 1 > Len(g.line_y) THEN Raise(gs2, "IndexError")
       ELSE LET pos == [set |-> TRUE,
                        x |-> clamp(g.xlim[1], g.xlim[2], LimScale * g.line_x[i + 1]),
                        y |-> clamp(g.ylim[1], g.ylim[2], LimScale * g.line_y[i + 1])]
            IN BlitManager_update([gs2 EXCEPT ![s].glyph = pos, ![s].readout = pos])

\* (mutant) set_position_index without the test for an empty line
Crosshair_set_position_index_unguarded(gs, s, index) == Crosshair_place(gs, s, index)

\* Crosshair.set_position_index: no effect on an empty line
Crosshair_set_position_index(gs, s, index) ==
    IF Len(gs[s].line_x) = 0 THEN Ok(gs) ELSE Crosshair_place(gs, s, index)

\* (mutant) increment_index wraps around the ends of the line
Crosshair_increment_index_wrap(gs, s, increment) ==
    IF Len(gs[s].line_x) = 0 THEN Ok(gs)
    ELSE Crosshair_set_position_index(gs, s, (gs[s].index + increment) % Len(gs[s].line_x))

Crosshair_increment_index(gs, s, increment) ==
    Crosshair_set_position_index(gs, s, gs[s].index + increment)

Crosshair_on_resize(gs, s) == Crosshair_set_position_index(gs, s, gs[s].index)

Crosshair_reset(gs, s) == Crosshair_set_position_index(gs, s, gs[s].index)

Crosshair_refresh(gs, s) ==
    Then(Crosshair_on_resize(gs, s),
         LAMBDA g2: Crosshair_set_position_index(g2, s, g2[s].index))

----------------------------------------------------------------------------
(* BlitManager.force_refresh: canvas.draw() renders the figure and fires   *)
(* the draw_event, to which BlitManager.on_draw and both crosshairs'       *)
(* on_resize are connected, in this order (RealTimePlot.__init__); the     *)
(* callback registry reports an exception of a callback and goes on.       *)
BlitManager_force_refresh(gs) ==
    LET d == BlitManager_on_draw([gs EXCEPT ![CANVAS].draws = @ + 1,
                                            ![CANVAS].rendered = StaticContent(gs)]).gs
        a == Crosshair_on_resize(d, PRIMARY).gs
        b == Crosshair_on_resize(a, REFERENCE).gs
    IN Ok(b)

----------------------------------------------------------------------------
(* Graph *)

Graph_init(unit_type, xlim, ylim) ==
    [unit_type      |-> unit_type,
     raw_x          |-> << >>,
     raw_y          |-> << >>,
     calibrated_x   |-> << >>,
     bg_subtracted  |-> << >>,
     background     |-> << >>,
     subtract_bg    |-> FALSE,
     fitting_params |-> <<0, 1, 0, 0>>,
     line_x         |-> << >>,
     line_y         |-> << >>,
     xlim           |-> xlim,
     ylim           |-> ylim,
     index          |-> 0,
     glyph          |-> NoPosition,
     readout        |-> NoPosition,
     hidden         |-> FALSE]           \* RealTimePlot.primary_hidden / reference_hidden

Graph_refresh(gs, s) ==
    Then(Crosshair_refresh(gs, s),
         LAMBDA g2: Then(BlitManager_force_refresh(g2), BlitManager_update))

Graph_update_x_bounds(gs, s, refresh) ==
    LET g == gs[s] IN
    IF Len(g.raw_x) = 0 THEN Ok(gs)
    ELSE IF g.unit_type = WAVELENGTH /\ Len(g.fitting_params) # 4
    THEN Raise(gs, "TypeError")                                  \* cubic(x, *self._fitting_params)
    ELSE LET gs2 ==
               IF g.unit_type = WAVELENGTH
               THEN [gs EXCEPT ![s].xlim = set_lim(LimScale * cubic(SeqMin(g.raw_x), g.fitting_params),
                                                   LimScale * cubic(SeqMax(g.raw_x), g.fitting_params)),
                               ![s].line_x = cubic_array(g.raw_x, g.fitting_params)]
               ELSE IF g.unit_type = PIXEL
               THEN [gs EXCEPT ![s].xlim = set_lim(LimScale * SeqMin(g.raw_x), LimScale * SeqMax(g.raw_x)),
                               ![s].line_x = g.raw_x]
               ELSE gs
         IN IF refresh THEN Graph_refresh(gs2, s) ELSE Ok(gs2)

Graph_set_unit_type(gs, s, unit_type) ==
    Graph_update_x_bounds([gs EXCEPT ![s].unit_type = unit_type], s, TRUE)

\* (mutant) set_raw_data keeps the stored background whatever its length
NewBackground_keep(g, y) == g.background

\* set_raw_data: a stored background of another length than y is replaced by zeros
NewBackground(g, y) == IF Len(y) # Len(g.background) THEN zeros_like(y) ELSE g.background

Graph_set_raw_data(gs, s, x, y) ==
    LET g == gs[s]
        background == NewBackground(g, y)
        bg_subtracted == Subtract(y, background)
        display_y == IF g.subtract_bg THEN bg_subtracted ELSE y
        calibrated_x == IF g.unit_type = WAVELENGTH THEN cubic_array(x, g.fitting_params) ELSE x
        gs2 == [gs EXCEPT ![s].raw_x = x,
                          ![s].raw_y = y,
                          ![s].background = background,
                          ![s].bg_subtracted = bg_subtracted,
                          ![s].calibrated_x = calibrated_x,
                          ![s].line_x = calibrated_x,
                          ![s].line_y = display_y]
    IN IF ~Broadcastable(y, background)                          \* y - self._background
       THEN Raise([gs EXCEPT ![s].raw_x = x, ![s].raw_y = y, ![s].background = background], "ValueError")
       ELSE IF g.unit_type = WAVELENGTH /\ Len(g.fitting_params) # 4   \* cubic(x, *self._fitting_params)
       THEN Raise([gs EXCEPT ![s].raw_x = x, ![s].raw_y = y, ![s].background = background,
                             ![s].bg_subtracted = bg_subtracted], "TypeError")
       ELSE IF Len(calibrated_x) = 0 THEN Raise(gs2, "ValueError")   \* np.min of an empty array
       ELSE IF \/ Abs(LimScale * SeqMin(calibrated_x) - g.xlim[1]) > 1
               \/ Abs(LimScale * SeqMax(calibrated_x) - g.xlim[2]) > 1
       THEN Graph_update_x_bounds(gs2, s, TRUE)
       ELSE Then(Crosshair_reset(gs2, s), BlitManager_update)

\* Graph.set_background: the new background is stored before the subtraction
Graph_set_background(gs, s, background) ==
    LET g == gs[s]
        gs2 == [gs EXCEPT ![s].background = background]
    IN IF ~Broadcastable(g.raw_y, background) THEN Raise(gs2, "ValueError")
       ELSE LET d == Subtract(g.raw_y, background)
            IN BlitManager_update([gs2 EXCEPT ![s].bg_subtracted = d, ![s].line_y = d])

\* (mutant) configure_bg_subtraction drops the background when it is disabled
Graph_configure_bg_subtraction_drops(gs, s, subtract_background) ==
    LET g == gs[s] IN
    BlitManager_update([gs EXCEPT ![s].subtract_bg = subtract_background,
                                  ![s].background = IF subtract_background THEN @ ELSE zeros_like(g.raw_y),
                                  ![s].bg_subtracted = IF subtract_background THEN @ ELSE g.raw_y,
                                  ![s].line_y = IF subtract_background THEN g.bg_subtracted ELSE g.raw_y])

Graph_configure_bg_subtraction(gs, s, subtract_background) ==
    LET g == gs[s] IN
    BlitManager_update([gs EXCEPT ![s].subtract_bg = subtract_background,
                                  ![s].line_y = IF subtract_background THEN g.bg_subtracted ELSE g.raw_y])

\* Graph.get_data: raw x, calibrated x, raw y, background-subtracted y
Graph_get_data(g) == <<g.raw_x, g.calibrated_x, g.raw_y, g.bg_subtracted>>

Graph_set_fitting_params(gs, s, params) == [gs EXCEPT ![s].fitting_params = params]

\* ReferenceGraph.set_raw_data: Graph.set_raw_data, then the axes limits are
\* set from the raw arrays
ReferenceGraph_set_raw_data(gs, s, x, y) ==
    Then(Graph_set_raw_data(gs, s, x, y),
         LAMBDA g2:
            IF Len(y) = 0 THEN Raise(g2, "ValueError")     \* np.min of an empty array
            ELSE Then(Ok([g2 EXCEPT ![s].xlim = set_lim(LimScale * SeqMin(x), LimScale * SeqMax(x)),
                                    ![s].ylim = set_lim(1005 * SeqMin(y), 1200 * SeqMax(y))]),
                      LAMBDA g3: Then(BlitManager_force_refresh(g3), BlitManager_update)))

----------------------------------------------------------------------------
(* loadwaves.load_waves: a file is a sequence of rows, a row a pair of     *)
(* cells (wavelength column, intensity column); a cell is numeric (ok) or  *)
(* text that float() rejects with ValueError.  Rows before row_start are   *)
(* skipped; the wavelength is appended before the intensity is parsed.     *)

CellVals == {1, 2}
Cells == {[ok |-> TRUE, v |-> n] : n \in CellVals} \cup {[ok |-> FALSE, v |-> 0]}
\* the intensity column holds 1 or text (frames carry the other intensities)
Rows == {r \in Cells \X Cells : r[2].ok => r[2].v = 1}
Files == UNION {[1..n -> Rows] : n \in 0..MaxRows}
RowStarts == {0, 1}

RECURSIVE load_rows(_, _, _, _, _)
load_rows(rows, line_num, row_start, wavelengths, intensities) ==
    IF rows = << >> THEN <<wavelengths, intensities>>
    ELSE LET line == Head(rows)
             w2 == IF line_num >= row_start /\ line[1].ok
                   THEN Append(wavelengths, line[1].v) ELSE wavelengths
             i2 == IF line_num >= row_start /\ line[1].ok /\ line[2].ok
                   THEN Append(intensities, line[2].v) ELSE intensities
         IN load_rows(Tail(rows), line_num + 1, row_start, w2, i2)

load_waves(file, row_start) == load_rows(file, 0, row_start, << >>, << >>)

\* what the load dialogs can obtain from a file
LoadResults == {load_waves(file, row_start) : file \in Files, row_start \in RowStarts}
LoadedIntensities == {w[2] : w \in LoadResults}

----------------------------------------------------------------------------
(* Frames *)

IntensityVals == {1, 2}
FrameData == [1..PIXELS -> IntensityVals]
\* the frames the driver delivers in the frame bridge: flat spectra
DriverFrameData == {[i \in 1..PIXELS |-> v] : v \in IntensityVals}
NoFrame == [seq |-> 0, raw_data |-> << >>]

\* a value stored in RealTimePlot._background: an array, or the scalar
\* frame.raw_data[1]
Array(a) == [ndim |-> 1, data |-> a]
Scalar(v) == [ndim |-> 0, data |-> <<v>>]

----------------------------------------------------------------------------
(* RealTimePlot *)

Coefficients == {<<0, 1, 0, 0>>, <<4, 3, 0, 0>>, <<2, 0, 1, 0>>}
BadCoefficients == {<<1, 2, 3>>}

\* selectors that name no trace
BadSelectors == {2}

\* RealTimePlot.get_graph: any selector but 0 and 1 raises ValueError
RealTimePlot_get_graph(gs, graph_selector) ==
    IF graph_selector # 0 /\ graph_selector # 1 THEN Raise(gs, "ValueError") ELSE Ok(gs)

RealTimePlot_set_raw_data(gs, x, y, graph_selector) ==
    Then(RealTimePlot_get_graph(gs, graph_selector),
         LAMBDA g: IF graph_selector = REFERENCE
                   THEN ReferenceGraph_set_raw_data(g, graph_selector, x, y)
                   ELSE Graph_set_raw_data(g, graph_selector, x, y))

\* RealTimePlot.get_background_subtracted: get_data()[2], counted from 0
RealTimePlot_get_background_subtracted(gs) == Graph_get_data(gs[PRIMARY])[2 + 1]

\* (mutant) refresh puts the frame on the reference trace
RealTimePlot_refresh_reference(gs, frame) ==
    IF frame # NoFrame
    THEN RealTimePlot_set_raw_data(gs, arange(PIXELS), frame.raw_data, REFERENCE)
    ELSE Ok(gs)

RealTimePlot_refresh(gs, frame) ==
    IF frame # NoFrame
    THEN RealTimePlot_set_raw_data(gs, arange(PIXELS), frame.raw_data, PRIMARY)
    ELSE Ok(gs)

\* (mutant) constrain_reference_x gives the reference trace the primary's coefficients too
RealTimePlot_constrain_reference_x_calibrated(gs) ==
    LET b == gs[PRIMARY].xlim
    IN Graph_refresh([gs EXCEPT ![REFERENCE].xlim = set_lim(b[1], b[2]),
                                ![REFERENCE].fitting_params = gs[PRIMARY].fitting_params], REFERENCE)

RealTimePlot_constrain_reference_x(gs) ==
    LET b == gs[PRIMARY].xlim
    IN Graph_refresh([gs EXCEPT ![REFERENCE].xlim = set_lim(b[1], b[2])], REFERENCE)

\* (mutant) _after_fit without constrain_reference_x
RealTimePlot_after_fit_unconstrained(gs, graph_selector) ==
    Then(Graph_update_x_bounds(gs, graph_selector, FALSE),
         LAMBDA g2: Then(BlitManager_force_refresh(g2), BlitManager_update))

RealTimePlot_after_fit(gs, graph_selector) ==
    Then(Graph_update_x_bounds(gs, graph_selector, FALSE),
         LAMBDA g2:
            Then(IF graph_selector = PRIMARY THEN RealTimePlot_constrain_reference_x(g2) ELSE Ok(g2),
                 LAMBDA g3: Then(BlitManager_force_refresh(g3), BlitManager_update)))

RealTimePlot_set_coefficients(gs, fitting_params, graph_selector) ==
    IF Len(fitting_params) # 4 THEN Raise(gs, "ValueError")
    ELSE Then(Then(RealTimePlot_get_graph(gs, graph_selector),
                   LAMBDA g: Graph_set_unit_type(g, graph_selector, WAVELENGTH)),
              LAMBDA g2: RealTimePlot_after_fit(Graph_set_fitting_params(g2, graph_selector, fitting_params),
                                                graph_selector))

\* _after_fit checks the Wavelength radio button (callback blocked) right
\* after update_x_bounds, i.e. whenever set_unit_type has returned normally
CheckedAfterFit(gs, fitting_params, graph_selector, uc) ==
    IF /\ Len(fitting_params) = 4
       /\ graph_selector \in Selectors
       /\ Graph_set_unit_type(gs, graph_selector, WAVELENGTH).err = "none"
    THEN [uc EXCEPT ![graph_selector] = WAVELENGTH]
    ELSE uc

----------------------------------------------------------------------------
(* scipy.optimize.curve_fit as RealTimePlot.fit uses it (method lm, start  *)
(* vector of ones), on integer control points.  With as many distinct      *)
(* points as parameters the least-squares solution is the interpolating    *)
(* polynomial, computed here by divided differences; control points whose  *)
(* interpolating polynomial is not integral are outside the model.         *)

quot(a, b) == IF b < 0 THEN (-a) \div (-b) ELSE a \div b

Distinct(seq) == \A i, j \in 1..Len(seq) : i # j => seq[i] # seq[j]

\* the interpolating polynomial through up to four points, as a0..a3
interpolate(p, w) ==
    LET n == Len(p)
        d1(i) == quot(w[i + 1] - w[i], p[i + 1] - p[i])
        d2(i) == quot(d1(i + 1) - d1(i), p[i + 2] - p[i])
        d3(i) == quot(d2(i + 1) - d2(i), p[i + 3] - p[i])
        c0 == w[1]
        c1 == IF n >= 2 THEN d1(1) ELSE 0
        c2 == IF n >= 3 THEN d2(1) ELSE 0
        c3 == IF n >= 4 THEN d3(1) ELSE 0
        p1 == p[1]
        p2 == IF n >= 2 THEN p[2] ELSE 0
        p3 == IF n >= 3 THEN p[3] ELSE 0
    IN << c0 - c1 * p1 + c2 * p1 * p2 - c3 * p1 * p2 * p3,
          c1 - c2 * (p1 + p2) + c3 * (p1 * p2 + p1 * p3 + p2 * p3),
          c2 - c3 * (p1 + p2 + p3),
          c3 >>

\* the polynomial passes through every control point
Interpolates(c, p, w) == \A i \in 1..Len(p) : cubic(p[i], c) = w[i]

\* control points: pixel positions, target wavelengths, and whether every
\* wavelength is a finite number (Entry.get_float accepts "inf" and "nan")
ControlPoints(p, w, finite) == [pixels |-> p, wavelengths |-> w, finite |-> finite]

FitInputs ==
    { ControlPoints(<<0, 4>>, <<400, 700>>, TRUE),
      ControlPoints(<<0, 2>>, <<4, 2>>, TRUE),
      ControlPoints(<<0, 1, 2>>, <<1, 2, 5>>, TRUE),
      ControlPoints(<<0, 1, 2, 3>>, <<0, 1, 8, 27>>, TRUE),
      ControlPoints(<<0, 0>>, <<2, 4>>, TRUE),
      ControlPoints(<<1>>, <<400>>, TRUE),
      ControlPoints(<<0, 4>>, <<400, 700>>, FALSE) }

FitOk(popt) == [err |-> "none", popt |-> popt]
FitError(e) == [err |-> e, popt |-> << >>]

\* two control points at the same pixel p: the Jacobian is singular; the
\* iteration from (1, 1) ends at the least-squares point (1 + t, 1 + t*p)
\* with 1 + t + (1 + t*p)*p = mean of the wavelengths and only warns that
\* the covariance could not be estimated, or it gives up with RuntimeError
curve_fit_singular(p, w) ==
    LET t == quot(w[1] + w[2] - 2 * (1 + p[1]), 2 * (1 + p[1] * p[1]))
    IN {FitOk(<<1 + t, 1 + t * p[1]>>), FitError("RuntimeError")}

\* the outcomes of curve_fit for a model function of the given degree
curve_fit(degree, in) ==
    LET p == in.pixels
        w == in.wavelengths
    IN IF ~in.finite \/ Len(p) # Len(w) THEN {FitError("ValueError")}
       ELSE IF Len(p) < degree + 1 THEN {FitError("TypeError")}
       ELSE IF ~Distinct(p) THEN curve_fit_singular(p, w)
       ELSE {FitOk(SubSeq(interpolate(p, w), 1, degree + 1))}

\* (mutant) fit always uses the cubic
fit_degree_cubic(n) == 3

\* RealTimePlot.fit: the degree of the fitted polynomial
fit_degree(n) == IF n = 2 THEN 1 ELSE IF n = 3 THEN 2 ELSE 3

\* (mutant) the unused terms are put in front
fit_params_front(popt) == [i \in 1..(4 - Len(popt)) |-> 0] \o popt

\* the 4-tuple fit stores for the parameters curve_fit returned
fit_params(popt) == popt \o [i \in 1..(4 - Len(popt)) |-> 0]

\* the control points of the model whose fit is exact in integers
ExactFit(in) ==
    (in.finite /\ Len(in.pixels) = Len(in.wavelengths) /\ Distinct(in.pixels)
        /\ Len(in.pixels) = fit_degree(Len(in.pixels)) + 1)
    => Interpolates(interpolate(in.pixels, in.wavelengths), in.pixels, in.wavelengths)

\* RealTimePlot.fit with the outcome r of curve_fit
RealTimePlot_fit(gs, r, graph_selector) ==
    Then(Then(RealTimePlot_get_graph(gs, graph_selector),
              LAMBDA g: Graph_set_unit_type(g, graph_selector, WAVELENGTH)),
         LAMBDA g2:
            IF r.err # "none" THEN Raise(g2, r.err)
            ELSE RealTimePlot_after_fit(Graph_set_fitting_params(g2, graph_selector, fit_params(r.popt)),
                                        graph_selector))

----------------------------------------------------------------------------
(* Observers *)

\* a user operation on the plot (counted), a step of the frame bridge (not counted)
\* arg records the input of the operation where a property needs it
OpWith(name, sel, arg) == [name |-> name, sel |-> sel, n |-> last_op.n + 1, arg |-> arg]
Op(name, sel) == OpWith(name, sel, << >>)
BridgeOp(name) == [name |-> name, sel |-> PRIMARY, n |-> last_op.n, arg |-> << >>]
CanOperate == ui.pc = "idle" /\ last_op.n < MaxOps
CanMove == ui.pc = "idle" /\ last_op.n < MaxMoves

\* the plot as an operation finds it: the counts of draws and updates start anew
Begin == [graphs EXCEPT ![CANVAS].draws = 0, ![CANVAS].updates = 0,
                        ![CANVAS].restores = 0, ![CANVAS].stale = 0]

----------------------------------------------------------------------------
(* UI-thread operations on the plot (each runs to completion on the UI    *)
(* thread; they are enabled between two ticks of the DataHandler timer)   *)

\* LoadDisplayableSpectrumDialog.on_close: load_waves, RealTimePlot.set_raw_data,
\* then the plot selector is set to the loaded trace
LoadSpectrumWith(can, sel, w) ==
    LET st == RealTimePlot_set_raw_data(Begin, w[1], w[2], sel)
    IN /\ can
       /\ graphs' = st.gs
       /\ err' = st.err
       /\ selected_graph' = IF st.err = "none" THEN sel ELSE selected_graph
       /\ last_op' = Op("set_raw_data", sel)
       /\ UNCHANGED <<plot_background, unit_control>>
       /\ UNCHANGED bridgevars

LoadSpectrum == \E sel \in Selectors, w \in LoadResults : LoadSpectrumWith(CanOperate, sel, w)

\* the slot RealTimePlot.refresh, run with an emitted frame
RefreshWith(can, d) ==
    LET st == RealTimePlot_refresh(Begin, [seq |-> 1, raw_data |-> d])
    IN /\ can
       /\ graphs' = st.gs
       /\ err' = st.err
       /\ last_op' = OpWith("refresh", PRIMARY, d)
       /\ UNCHANGED <<plot_background, selected_graph, unit_control>>
       /\ UNCHANGED bridgevars

Refresh == \E d \in FrameData : RefreshWith(CanOperate, d)

\* RealTimePlot.set_background, called with the intensities of a loaded file
RealTimePlot_set_background(background) ==
    /\ CanOperate
    /\ plot_background' = Array(background)
    /\ graphs' = Begin
    /\ err' = "none"
    /\ last_op' = Op("RealTimePlot.set_background", PRIMARY)
    /\ UNCHANGED <<selected_graph, unit_control>>
    /\ UNCHANGED bridgevars

SetBackground == \E background \in LoadedIntensities : RealTimePlot_set_background(background)

\* Graph.set_background
GraphSetBackgroundWith(can, sel, background) ==
    LET st == Graph_set_background(Begin, sel, background)
    IN /\ can
       /\ graphs' = st.gs
       /\ err' = st.err
       /\ last_op' = Op("Graph.set_background", sel)
       /\ UNCHANGED <<plot_background, selected_graph, unit_control>>
       /\ UNCHANGED bridgevars

GraphSetBackgroundOf(sel, background) == GraphSetBackgroundWith(CanOperate, sel, background)

GraphSetBackground ==
    \E sel \in Selectors, background \in LoadedIntensities : GraphSetBackgroundOf(sel, background)

\* the "Subtract background" checkbox of the main window
ConfigureBgSubtractionWith(can) ==
    \E b \in BOOLEAN :
        LET st == Graph_configure_bg_subtraction(Begin, PRIMARY, b)
        IN /\ can
           /\ graphs' = st.gs
           /\ err' = st.err
           /\ last_op' = OpWith("configure_bg_subtraction", PRIMARY, b)
           /\ UNCHANGED <<plot_background, selected_graph, unit_control>>
           /\ UNCHANGED bridgevars

ConfigureBgSubtraction == ConfigureBgSubtractionWith(CanOperate)

\* WavelengthPixelButton.toggle: the user checks the other radio button
ToggleUnitWith(can, sel) ==
    LET unit_type == IF unit_control[sel] = PIXEL THEN WAVELENGTH ELSE PIXEL
        st == Graph_set_unit_type(Begin, sel, unit_type)
    IN /\ can
       /\ unit_control' = [unit_control EXCEPT ![sel] = unit_type]
       /\ graphs' = st.gs
       /\ err' = st.err
       /\ last_op' = OpWith("set_unit_type", sel, unit_type)
       /\ UNCHANGED <<plot_background, selected_graph>>
       /\ UNCHANGED bridgevars

ToggleUnit == \E sel \in Selectors : ToggleUnitWith(CanOperate, sel)

\* EnterCoeffDialog.calculate_fit / AutomaticCalibrator.calibrate
SetCoefficientsWith(can, sel, params) ==
    LET st == RealTimePlot_set_coefficients(Begin, params, sel)
    IN /\ can
       /\ graphs' = st.gs
       /\ err' = st.err
       /\ unit_control' = CheckedAfterFit(Begin, params, sel, unit_control)
       /\ last_op' = OpWith("set_coefficients", sel, params)
       /\ UNCHANGED <<plot_background, selected_graph>>
       /\ UNCHANGED bridgevars

SetCoefficients ==
    \E sel \in Selectors \cup BadSelectors, params \in Coefficients \cup BadCoefficients :
        SetCoefficientsWith(CanOperate, sel, params)

----------------------------------------------------------------------------
(* Calibration and crosshair operations of the UI thread *)

\* loaded traces whose x column counts 1, 2, ...
Traces == {w \in LoadResults : w[1] = [i \in 1..Len(w[1]) |-> i]}

\* the traces of Traces whose intensities are all 1
FlatTraces == {w \in Traces : \A i \in 1..Len(w[2]) : w[2][i] = 1}

LoadTrace == \E sel \in Selectors, w \in Traces : LoadSpectrumWith(CanOperate, sel, w)

LiveFrame == \E d \in DriverFrameData : RefreshWith(CanOperate, d)

\* MaxPixelsDialog.calculate_fit: RealTimePlot.fit on the control points
Fit ==
    \E sel \in Selectors \cup BadSelectors, in \in FitInputs :
        \E r \in curve_fit(fit_degree(Len(in.pixels)), in) :
            LET st == RealTimePlot_fit(Begin, r, sel)
            IN /\ CanOperate
               /\ ExactFit(in)
               /\ graphs' = st.gs
               /\ err' = st.err
               /\ unit_control' = IF r.err = "none"
                                  THEN CheckedAfterFit(Begin, fit_params(r.popt), sel, unit_control)
                                  ELSE unit_control
               /\ last_op' = OpWith("fit", sel, in)
               /\ UNCHANGED <<plot_background, selected_graph>>
               /\ UNCHANGED bridgevars

\* Graph.set_fitting_params called on a trace
GraphSetFittingParams ==
    \E sel \in Selectors, params \in {<<4, 3, 0, 0>>} \cup BadCoefficients :
        /\ CanOperate
        /\ graphs' = Graph_set_fitting_params(Begin, sel, params)
        /\ err' = "none"
        /\ last_op' = OpWith("set_fitting_params", sel, params)
        /\ UNCHANGED <<plot_background, selected_graph, unit_control>>
        /\ UNCHANGED bridgevars

\* RealTimePlot.redraw (Window.resizeEvent)
RealTimePlot_redraw(gs) == Then(BlitManager_force_refresh(gs), BlitManager_update)

RedrawWith(can) ==
    LET st == RealTimePlot_redraw(Begin)
    IN /\ can
       /\ graphs' = st.gs
       /\ err' = st.err
       /\ last_op' = Op("redraw", selected_graph)
       /\ UNCHANGED <<plot_background, selected_graph, unit_control>>
       /\ UNCHANGED bridgevars

Redraw == RedrawWith(CanOperate)

\* RealTimePlot.move_crosshair (Window.keyPressEvent: left and right arrow)
MoveCrosshairWith(can, increment) ==
    LET st == Crosshair_increment_index(Begin, selected_graph, increment)
    IN /\ can
       /\ graphs' = st.gs
       /\ err' = st.err
       /\ last_op' = OpWith("move_crosshair", selected_graph, increment)
       /\ UNCHANGED <<plot_background, selected_graph, unit_control>>
       /\ UNCHANGED bridgevars

MoveCrosshair == \E increment \in {-1, 1} : MoveCrosshairWith(CanOperate, increment)

\* (mutant) the last index at which the distance is least
argmin_abs_last(data_x2, line_x) ==
    LET d(i) == Abs(data_x2 - 2 * line_x[i])
    IN (CHOOSE i \in 1..Len(line_x) :
            /\ \A j \in 1..Len(line_x) : d(i) <= d(j)
            /\ \A j \in (i + 1)..Len(line_x) : d(j) > d(i)) - 1

\* np.abs(data_x - line_x).argmin(), with data_x given in halves: the first
\* index at which the distance is least
argmin_abs(data_x2, line_x) ==
    LET d(i) == Abs(data_x2 - 2 * line_x[i])
    IN (CHOOSE i \in 1..Len(line_x) :
            /\ \A j \in 1..Len(line_x) : d(i) <= d(j)
            /\ \A j \in 1..(i - 1) : d(j) > d(i)) - 1

\* RealTimePlot.onclick with the click at data coordinate data_x2 / 2
RealTimePlot_onclick(gs, sel, data_x2) ==
    IF Len(gs[sel].line_x) = 0 THEN Ok(gs)
    ELSE Crosshair_set_position_index(gs, sel, argmin_abs(data_x2, gs[sel].line_x))

\* data coordinates of the clicks, in halves
ClickXs == 0..(2 * PIXELS - 1)

OnClick ==
    \E data_x2 \in ClickXs :
        LET st == RealTimePlot_onclick(Begin, selected_graph, data_x2)
        IN /\ CanMove
           /\ graphs' = st.gs
           /\ err' = st.err
           /\ last_op' = OpWith("onclick", selected_graph, data_x2)
           /\ UNCHANGED <<plot_background, selected_graph, unit_control>>
           /\ UNCHANGED bridgevars

\* Crosshair.set_position_index called on the selected trace's crosshair
SetPositionIndex ==
    \E index \in -1..PIXELS :
        LET st == Crosshair_set_position_index(Begin, selected_graph, index)
        IN /\ CanMove
           /\ graphs' = st.gs
           /\ err' = st.err
           /\ last_op' = OpWith("set_position_index", selected_graph, index)
           /\ UNCHANGED <<plot_background, selected_graph, unit_control>>
           /\ UNCHANGED bridgevars

\* PlotSelector.toggle: RealTimePlot.select_graph
SelectGraph ==
    \E sel \in Selectors :
        /\ CanMove
        /\ sel # selected_graph
        /\ selected_graph' = sel
        /\ graphs' = Begin
        /\ err' = "none"
        /\ last_op' = Op("select_graph", sel)
        /\ UNCHANGED <<plot_background, unit_control>>
        /\ UNCHANGED bridgevars

\* the operations of the crosshair specification
CrosshairLoad == \E sel \in Selectors, w \in FlatTraces : LoadSpectrumWith(CanMove, sel, w)
CrosshairFrame == \E d \in DriverFrameData : RefreshWith(CanMove, d)
CrosshairMove == \E increment \in {-1, 1} : MoveCrosshairWith(CanMove, increment)
CrosshairResize == RedrawWith(CanMove)

----------------------------------------------------------------------------
(* Live display and loads under a calibration *)

\* coefficients whose mapping of the pixel indices is increasing, decreasing
\* and, from three pixels on, neither
LiveCoefficients == {<<4, 3, 0, 0>>, <<4, -1, 0, 0>>, <<0, -2, 1, 0>>}

\* the arrays load_waves returns for a file of one and of two data rows
LiveTraces == {<< <<1>>, <<1>> >>, << <<1, 2>>, <<1, 1>> >>}

LiveLoad == \E sel \in Selectors, w \in LiveTraces : LoadSpectrumWith(CanMove, sel, w)
LiveCalibrate ==
    \E sel \in Selectors, params \in LiveCoefficients : SetCoefficientsWith(CanMove, sel, params)
LiveToggleUnit == \E sel \in Selectors : ToggleUnitWith(CanMove, sel)

----------------------------------------------------------------------------
(* Operations on the blit manager: registration and visibility of artists *)

\* the positions of the traces' artists in the blit manager
primary_indices == <<0, 1, 2>>
reference_indices == <<3, 4, 5>>

\* (mutant) both toggles act on the artists at the primary indices
RealTimePlot_toggle_plot_primary_indices(gs, s) ==
    LET hidden == ~gs[s].hidden
        set(g, index) == IF hidden THEN BlitManager_hide_artist(g, index)
                         ELSE BlitManager_show_artist(g, index)
    IN Then(Then(Then(set([gs EXCEPT ![s].hidden = hidden], primary_indices[1]),
                      LAMBDA g: set(g, primary_indices[2])),
                 LAMBDA g: set(g, primary_indices[3])),
            BlitManager_update)

\* RealTimePlot.toggle_primary_plot / toggle_reference_plot: the flag of the
\* trace is inverted, its three artists are hidden or shown, the blit
\* manager updates
RealTimePlot_toggle_plot(gs, s) ==
    LET hidden == ~gs[s].hidden
        indices == IF s = PRIMARY THEN primary_indices ELSE reference_indices
        set(g, index) == IF hidden THEN BlitManager_hide_artist(g, index)
                         ELSE BlitManager_show_artist(g, index)
    IN Then(Then(Then(set([gs EXCEPT ![s].hidden = hidden], indices[1]),
                      LAMBDA g: set(g, indices[2])),
                 LAMBDA g: set(g, indices[3])),
            BlitManager_update)

TogglePlot(s, name) ==
    LET st == RealTimePlot_toggle_plot(Begin, s)
    IN /\ CanMove
       /\ graphs' = st.gs
       /\ err' = st.err
       /\ last_op' = Op(name, s)
       /\ UNCHANGED <<plot_background, selected_graph, unit_control>>
       /\ UNCHANGED bridgevars

TogglePrimaryPlot == TogglePlot(PRIMARY, "toggle_primary_plot")

ToggleReferencePlot == TogglePlot(REFERENCE, "toggle_reference_plot")

\* the artists given to one call of add_artists: one or two, each of the
\* plot's figure or of another figure
ArtistTuples ==
    LET extras == {ExtraArtist(figure) : figure \in {"figure", "other"}}
    IN {<<a>> : a \in extras} \cup {<<a, b>> : a \in extras, b \in extras}

\* BlitManager.add_artists called on the plot's blit manager
AddArtists ==
    \E artists \in ArtistTuples :
        LET st == BlitManager_add_artists(Begin, artists)
        IN /\ CanMove
           /\ graphs' = st.gs
           /\ err' = st.err
           /\ last_op' = OpWith("add_artists", PRIMARY, artists)
           /\ UNCHANGED <<plot_background, selected_graph, unit_control>>
           /\ UNCHANGED bridgevars

\* the indices given to hide_artist and show_artist: the last artist (-1),
\* the primary line, and the position after the artists of the two traces
ArtistIndices == {-1, primary_indices[1], reference_indices[3] + 1}

\* BlitManager.hide_artist / show_artist called on the plot's blit manager
SetArtistVisible(name, value) ==
    \E index \in ArtistIndices :
        LET st == SetVisible(Begin, index, value)
        IN /\ CanMove
           /\ graphs' = st.gs
           /\ err' = st.err
           /\ last_op' = OpWith(name, PRIMARY, index)
           /\ UNCHANGED <<plot_background, selected_graph, unit_control>>
           /\ UNCHANGED bridgevars

HideArtist == SetArtistVisible("hide_artist", FALSE)

ShowArtist == SetArtistVisible("show_artist", TRUE)

\* the operations on the background of the primary trace
SubtractSetBackground ==
    \E background \in LoadedIntensities : GraphSetBackgroundWith(CanMove, PRIMARY, background)
SubtractConfigure == ConfigureBgSubtractionWith(CanMove)

\* the other operations of the blit specification
BlitFrame == \E d \in DriverFrameData : RefreshWith(CanMove, d)
BlitResize == RedrawWith(CanMove)

----------------------------------------------------------------------------
(* Frame bridge: LineCamera.add_frame on the hardware-driver thread and    *)
(* DataHandler._plot_data on the UI thread.  The two threads interleave    *)
(* between the statements of the two methods.                              *)

FrameCallback == [kind |-> "frame_callback", id |-> 0]
ReceiveBackground(n) == [kind |-> "receive_background", id |-> n]

\* registered (observer): the identity the next closure would get when
\* add_frame was entered; the closures with a smaller identity were
\* registered before this frame arrived
HwIdle == [pc |-> "idle", i |-> 0, frame |-> NoFrame, registered |-> 0]
UiIdle == [pc |-> "idle", frame |-> NoFrame]

\* observer update for a step of the hardware thread
HwStep(o) == [o EXCEPT !.quiet = FALSE,
                       !.tick.clean = IF ui.pc = "idle" THEN @ ELSE FALSE]

\* observer update for the end of a tick
TickEnd(o) == [o EXCEPT !.quiet = TRUE, !.k = 0]

\* LineCamera.add_frame, first statement: the frame is stored
StoreFrame(overwrite) ==
    \E d \in DriverFrameData :
        LET frame == [seq |-> next_seq, raw_data |-> d]
        IN /\ hw.pc = "idle"
           /\ next_seq <= MaxFrames
           /\ last_received_frame' = IF overwrite THEN frame ELSE last_received_frame
           /\ hw' = [pc |-> "callbacks", i |-> 0, frame |-> frame, registered |-> next_cb]
           /\ next_seq' = next_seq + 1
           /\ obs' = [HwStep(obs) EXCEPT !.k = @ + 1]
           /\ last_op' = BridgeOp("add_frame")
           /\ UNCHANGED <<graphs, plot_background, selected_graph, unit_control, err>>
           /\ UNCHANGED <<ui, awaiting_plot, frame_callbacks, next_cb, grabbers>>

\* (mutant) a frame that arrives while one is pending is not stored
AddFrame_store_unless_pending == StoreFrame(~awaiting_plot)

AddFrame_store == StoreFrame(TRUE)

\* add_frame's loop reaches the DataHandler's frame_callback
AddFrame_frame_callback ==
    /\ hw.pc = "callbacks"
    /\ hw.i < Len(frame_callbacks)
    /\ frame_callbacks[hw.i + 1].kind = "frame_callback"
    /\ awaiting_plot' = TRUE
    /\ hw' = [hw EXCEPT !.i = @ + 1]
    /\ obs' = HwStep(obs)
    /\ last_op' = BridgeOp("frame_callback")
    /\ UNCHANGED <<graphs, plot_background, selected_graph, unit_control, err>>
    /\ UNCHANGED <<ui, last_received_frame, frame_callbacks, next_seq, next_cb, grabbers>>

RemoveCallback(cbs, cb) == SelectSeq(cbs, LAMBDA c: c # cb)

\* add_frame's loop reaches a receive_background closure of take_background
AddFrame_receive_background ==
    /\ hw.pc = "callbacks"
    /\ hw.i < Len(frame_callbacks)
    /\ frame_callbacks[hw.i + 1].kind = "receive_background"
    /\ plot_background' = Scalar(hw.frame.raw_data[2])
    /\ frame_callbacks' = RemoveCallback(frame_callbacks, frame_callbacks[hw.i + 1])
    /\ hw' = [hw EXCEPT !.i = @ + 1]
    /\ obs' = HwStep(obs)
    /\ last_op' = BridgeOp("receive_background")
    /\ UNCHANGED <<graphs, selected_graph, unit_control, err>>
    /\ UNCHANGED <<ui, last_received_frame, awaiting_plot, next_seq, next_cb, grabbers>>

\* add_frame's loop is exhausted
AddFrame_return ==
    /\ hw.pc = "callbacks"
    /\ hw.i >= Len(frame_callbacks)
    /\ hw' = HwIdle
    /\ obs' = HwStep(obs)
    /\ last_op' = BridgeOp("add_frame_return")
    /\ UNCHANGED <<graphs, plot_background, selected_graph, unit_control, err>>
    /\ UNCHANGED <<ui, last_received_frame, awaiting_plot, frame_callbacks, next_seq, next_cb, grabbers>>

\* DataHandler._plot_data: if self.awaiting_plot
PlotData_test ==
    /\ ui.pc = "idle"
    /\ obs.ticks < MaxTicks
    /\ ui' = IF awaiting_plot THEN [pc |-> "read", frame |-> NoFrame] ELSE UiIdle
    /\ obs' = LET o == [obs EXCEPT !.ticks = @ + 1,
                                   !.tick = [k |-> obs.k,
                                             quiet |-> obs.quiet,
                                             clean |-> hw.pc = "idle",
                                             last |-> next_seq - 1,
                                             emitted |-> << >>]]
              IN IF awaiting_plot THEN o ELSE TickEnd(o)
    /\ last_op' = BridgeOp("_plot_data:test")
    /\ UNCHANGED <<graphs, plot_background, selected_graph, unit_control, err>>
    /\ UNCHANGED <<last_received_frame, awaiting_plot, frame_callbacks, hw, next_seq, next_cb, grabbers>>

\* frame = self.camera.last_received_frame()
PlotData_read ==
    /\ ui.pc = "read"
    /\ ui' = [pc |-> "emit", frame |-> last_received_frame]
    /\ last_op' = BridgeOp("_plot_data:read")
    /\ UNCHANGED <<graphs, plot_background, selected_graph, unit_control, err>>
    /\ UNCHANGED <<last_received_frame, awaiting_plot, frame_callbacks, hw, next_seq, next_cb, obs, grabbers>>

\* if frame: self._signal.emit(frame); the connected slot RealTimePlot.refresh
\* runs inside the emit
Emit(times) ==
    /\ ui.pc = "emit"
    /\ LET emits == ui.frame # NoFrame
           st == IF emits THEN RealTimePlot_refresh(Begin, ui.frame) ELSE Ok(Begin)
       IN /\ graphs' = st.gs
          /\ err' = st.err
          /\ obs' = IF emits
                    THEN [obs EXCEPT !.emissions = @ + times,
                                     !.emitted = @ \cup {ui.frame.seq},
                                     !.tick.emitted = @ \o [i \in 1..times |-> ui.frame.seq]]
                    ELSE obs
    /\ ui' = [ui EXCEPT !.pc = "clear"]
    /\ last_op' = BridgeOp("_plot_data:emit")
    /\ UNCHANGED <<plot_background, selected_graph, unit_control>>
    /\ UNCHANGED <<last_received_frame, awaiting_plot, frame_callbacks, hw, next_seq, next_cb, grabbers>>

\* (mutant) the signal reaches the slot twice
PlotData_emit_twice == Emit(2)

PlotData_emit == Emit(1)

\* self.awaiting_plot = False
ClearPending(value) ==
    /\ ui.pc = "clear"
    /\ awaiting_plot' = value
    /\ ui' = UiIdle
    /\ obs' = TickEnd(obs)
    /\ last_op' = BridgeOp("_plot_data:clear")
    /\ UNCHANGED <<graphs, plot_background, selected_graph, unit_control, err>>
    /\ UNCHANGED <<last_received_frame, frame_callbacks, hw, next_seq, next_cb, grabbers>>

\* (mutant) the tick leaves the pending flag as it is
PlotData_clear_keeps_flag == ClearPending(awaiting_plot)

PlotData_clear == ClearPending(FALSE)

\* Window.create_toolbar.take_background: a new receive_background closure
\* is registered with the camera
TakeBackground ==
    /\ ui.pc = "idle"
    /\ next_cb <= MaxBgCallbacks
    /\ frame_callbacks' = Append(frame_callbacks, ReceiveBackground(next_cb))
    /\ next_cb' = next_cb + 1
    /\ last_op' = BridgeOp("take_background")
    /\ UNCHANGED <<graphs, plot_background, selected_graph, unit_control, err>>
    /\ UNCHANGED <<last_received_frame, awaiting_plot, hw, ui, next_seq, obs, grabbers>>

----------------------------------------------------------------------------
(* Frame grabbing: LineCamera.grab_spectrum_frames / stop_spectrum_grab on  *)
(* the UI thread and _FrameGrabber.run on the grabber's own thread, which   *)
(* interleaves with the UI thread between its statements.  grabs counts    *)
(* the start_frame_grab commands the grabber has issued, killed records a  *)
(* call of kill.                                                           *)

\* the frames argument of grab_spectrum_frames: -1 (the default) grabs
\* continuously, 0 makes no pass of the loop, 2 makes it repeat
GrabFrames == {-1, 0, 2}

\* _FrameGrabber.__init__, which ends with self.start()
FrameGrabber_init(frames) ==
    [frames |-> frames, run_forever |-> (frames = -1), active |-> TRUE, pc |-> "run", i |-> 0,
     grabs |-> 0, killed |-> FALSE]

\* LineCamera.is_grabbing_frames
LineCamera_is_grabbing_frames(gr) == Len(gr) > 0 /\ gr[Len(gr)].active

\* a step that changes the grabbers only
GrabStep(name, gr, e) ==
    /\ grabbers' = gr
    /\ err' = e
    /\ last_op' = BridgeOp(name)
    /\ UNCHANGED <<graphs, plot_background, selected_graph, unit_control>>
    /\ UNCHANGED <<last_received_frame, awaiting_plot, frame_callbacks, hw, ui, next_seq, next_cb, obs>>

\* LineCamera.grab_spectrum_frames
GrabSpectrumFrames ==
    \E frames \in GrabFrames :
        IF LineCamera_is_grabbing_frames(grabbers)
        THEN GrabStep("grab_spectrum_frames", grabbers, "Exception")
        ELSE /\ Len(grabbers) < MaxGrabbers
             /\ GrabStep("grab_spectrum_frames", Append(grabbers, FrameGrabber_init(frames)), "none")

\* _FrameGrabber.kill: the flag is cleared (stop_frame_grab follows)
FrameGrabber_kill(g) == [g EXCEPT !.active = FALSE, !.killed = TRUE]

\* LineCamera.stop_spectrum_grab
StopSpectrumGrab ==
    GrabStep("stop_spectrum_grab",
             IF Len(grabbers) > 0
             THEN [grabbers EXCEPT ![Len(grabbers)] = FrameGrabber_kill(@)]
             ELSE grabbers,
             "none")

\* a step of the thread of grabber k
GrabberStep(k, pc, g) ==
    /\ k \in 1..Len(grabbers)
    /\ grabbers[k].pc = pc
    /\ GrabStep("_FrameGrabber.run", [grabbers EXCEPT ![k] = g], err)

\* run: if self.run_forever ... else: i = 0
FrameGrabber_run ==
    \E k \in 1..Len(grabbers) :
        GrabberStep(k, "run",
                    [grabbers[k] EXCEPT !.pc = IF grabbers[k].run_forever THEN "start_frame_grab" ELSE "test",
                                        !.i = 0])

\* while self.active and i < self.frames
FrameGrabber_test ==
    \E k \in 1..Len(grabbers) :
        GrabberStep(k, "test",
                    [grabbers[k] EXCEPT !.pc = IF grabbers[k].active /\ grabbers[k].i < grabbers[k].frames
                                               THEN "start_frame_grab" ELSE "exit"])

\* start_frame_grab(0x8888) / start_frame_grab(1)
FrameGrabber_start_frame_grab ==
    \E k \in 1..Len(grabbers) :
        GrabberStep(k, "start_frame_grab",
                    [grabbers[k] EXCEPT !.pc = "get_frame_data", !.grabs = @ + 1])

\* get_device_spectrometer_frame_data(self.device_id, 1, True); run ends
\* here when it grabs continuously
FrameGrabber_get_frame_data ==
    \E k \in 1..Len(grabbers) :
        GrabberStep(k, "get_frame_data",
                    [grabbers[k] EXCEPT !.pc = IF grabbers[k].run_forever THEN "done" ELSE "sleep"])

\* time.sleep(self.interval); i += 1
FrameGrabber_sleep ==
    \E k \in 1..Len(grabbers) :
        GrabberStep(k, "sleep", [grabbers[k] EXCEPT !.pc = "test", !.i = @ + 1])

\* (mutant) run ends without clearing the flag
FrameGrabber_exit_keeps_active ==
    \E k \in 1..Len(grabbers) :
        GrabberStep(k, "exit", [grabbers[k] EXCEPT !.pc = "done"])

\* self.active = False, after the loop; run ends
FrameGrabber_exit ==
    \E k \in 1..Len(grabbers) :
        GrabberStep(k, "exit", [grabbers[k] EXCEPT !.pc = "done", !.active = FALSE])

\* the steps of the grabber threads
FrameGrabber_thread ==
    \/ FrameGrabber_run
    \/ FrameGrabber_test
    \/ FrameGrabber_start_frame_grab
    \/ FrameGrabber_get_frame_data
    \/ FrameGrabber_sleep
    \/ FrameGrabber_exit

----------------------------------------------------------------------------
(* Initial state: RealTimePlot.__init__, DataHandler.__init__ and the      *)
(* class attributes of LineCamera                                          *)

RealTimePlot_init ==
    BlitManager_add_artists(
        [s \in Selectors \cup {CANVAS} |->
            IF s = PRIMARY
            THEN Graph_init(PIXEL, <<0, LimScale * PIXELS>>, <<0, LimScale * 65535>>)
            ELSE IF s = REFERENCE
            THEN Graph_init(WAVELENGTH, <<0, LimScale>>, <<0, 1200>>)
            ELSE Canvas_init],
        Graph_get_artists(PRIMARY) \o Graph_get_artists(REFERENCE)).gs

Init ==
    /\ graphs = RealTimePlot_init
    /\ plot_background = Array([i \in 1..PIXELS |-> 0])
    /\ selected_graph = PRIMARY
    /\ unit_control = [s \in Selectors |-> PIXEL]
    /\ err = "none"
    /\ last_op = [name |-> "init", sel |-> PRIMARY, n |-> 0, arg |-> << >>]
    /\ last_received_frame = NoFrame
    /\ awaiting_plot = FALSE
    /\ frame_callbacks = <<FrameCallback>>
    /\ hw = HwIdle
    /\ ui = UiIdle
    /\ next_seq = 1
    /\ next_cb = 1
    /\ obs = [ticks |-> 0, emissions |-> 0, emitted |-> {}, k |-> 0, quiet |-> TRUE,
              tick |-> [k |-> 0, quiet |-> TRUE, clean |-> TRUE, last |-> 0, emitted |-> << >>]]
    /\ grabbers = << >>

\* the trace store and calibration operations, all on the UI thread
Next ==
    \/ LoadSpectrum
    \/ Refresh
    \/ SetBackground
    \/ GraphSetBackground
    \/ ConfigureBgSubtraction
    \/ ToggleUnit
    \/ SetCoefficients

Spec == Init /\ [][Next]_vars

\* the frame bridge: hardware thread against the UI tick
NextBridge ==
    \/ AddFrame_store
    \/ AddFrame_frame_callback
    \/ AddFrame_receive_background
    \/ AddFrame_return
    \/ PlotData_test
    \/ PlotData_read
    \/ PlotData_emit
    \/ PlotData_clear
    \/ TakeBackground

SpecBridge == Init /\ [][NextBridge]_vars

\* calibration: unit modes, coefficients and fits, among the other operations
NextCalib ==
    \/ LoadTrace
    \/ LiveFrame
    \/ GraphSetBackground
    \/ ConfigureBgSubtraction
    \/ ToggleUnit
    \/ SetCoefficients
    \/ Fit
    \/ GraphSetFittingParams
    \/ MoveCrosshair
    \/ Redraw

SpecCalib == Init /\ [][NextCalib]_vars

\* the crosshair of the selected trace
NextCrosshair ==
    \/ CrosshairLoad
    \/ CrosshairFrame
    \/ CrosshairMove
    \/ OnClick
    \/ SetPositionIndex
    \/ SelectGraph
    \/ CrosshairResize

SpecCrosshair == Init /\ [][NextCrosshair]_vars

\* the blit manager: artists, visibility, draws and updates
NextBlit ==
    \/ AddArtists
    \/ HideArtist
    \/ ShowArtist
    \/ TogglePrimaryPlot
    \/ ToggleReferencePlot
    \/ BlitFrame
    \/ BlitResize

SpecBlit == Init /\ [][NextBlit]_vars

\* background subtraction on the primary trace, among loads, frames and
\* moves of the crosshair
NextSubtract ==
    \/ CrosshairLoad
    \/ CrosshairFrame
    \/ CrosshairMove
    \/ SubtractSetBackground
    \/ SubtractConfigure

SpecSubtract == Init /\ [][NextSubtract]_vars

\* live frames and loads under calibrations of the traces
NextLive ==
    \/ LiveLoad
    \/ CrosshairFrame
    \/ LiveCalibrate
    \/ LiveToggleUnit

SpecLive == Init /\ [][NextLive]_vars

\* frame grabbing: the UI thread against the grabber threads
NextGrab ==
    \/ GrabSpectrumFrames
    \/ StopSpectrumGrab
    \/ FrameGrabber_run
    \/ FrameGrabber_test
    \/ FrameGrabber_start_frame_grab
    \/ FrameGrabber_get_frame_data
    \/ FrameGrabber_sleep
    \/ FrameGrabber_exit

SpecGrab == Init /\ [][NextGrab]_vars

\* every grabber thread that can take a step eventually takes one
SpecGrabFair == Init /\ [][NextGrab]_vars /\ WF_vars(FrameGrabber_thread)

----------------------------------------------------------------------------
(* Frame bridge properties (SpecBridge) *)

\* C1: every tick of the DataHandler emits at most one frame, however many
\* frames the driver delivered, so the emissions never outnumber the ticks
C1_AtMostOneEmissionPerTick ==
    /\ Len(obs.tick.emitted) <= 1
    /\ obs.emissions <= obs.ticks

\* a tick that followed two or more deliveries has emitted one frame
C1_Witness ==
    /\ ui.pc = "idle"
    /\ obs.tick.k >= 2
    /\ Len(obs.tick.emitted) = 1

C3_NoFrameLeftBehind ==
    (hw.pc = "idle" /\ ui.pc = "idle" /\ last_received_frame # NoFrame /\ ~awaiting_plot)
        => last_received_frame.seq \in obs.emitted

\* C4: a tick that finds no frame delivered since the previous tick emits
\* nothing and leaves the traces, the calibration, the crosshairs and the
\* plot's background as they were
C4_IdleTickChangesNothing ==
    [][(obs'.ticks # obs.ticks /\ obs.quiet)
          => /\ ui'.pc = "idle"
             /\ obs'.emissions = obs.emissions
             /\ UNCHANGED <<graphs, plot_background, selected_graph, unit_control, err>>]_vars

\* after a frame was plotted, a tick came with no delivery in between and
\* emitted nothing
C4_Witness ==
    /\ ui.pc = "idle"
    /\ obs.ticks >= 2
    /\ obs.emissions >= 1
    /\ obs.tick.quiet
    /\ obs.tick.emitted = << >>
    /\ graphs[PRIMARY].raw_y # << >>

\* C5: a step of the hardware-driver thread (add_frame and the callbacks it
\* invokes) only stores the latest frame and raises the pending flag: it
\* writes no plot, trace or background state and not the callback list
C5_HardwareThreadOnlyHandsOff ==
    [][(hw' # hw)
          => UNCHANGED <<graphs, plot_background, selected_graph, unit_control, frame_callbacks>>]_vars

----------------------------------------------------------------------------
(* Trace store properties (Spec) *)

\* C6: set_background with an array whose length differs from the primary
\* trace's raw y signals IncompatibleSpectrumSizeError and leaves the stored
\* background, the background-subtracted array and the line unchanged
C6_MismatchedBackgroundRejected ==
    [][\A background \in LoadedIntensities :
          ( /\ RealTimePlot_set_background(background) \/ GraphSetBackgroundOf(PRIMARY, background)
            /\ Len(background) # Len(graphs[PRIMARY].raw_y) )
          => /\ err' = "IncompatibleSpectrumSizeError"
             /\ UNCHANGED <<graphs[PRIMARY].background, graphs[PRIMARY].bg_subtracted,
                            graphs[PRIMARY].line_y, plot_background>>]_vars

\* C7: after RealTimePlot.set_background with an array as long as the raw y,
\* the primary trace's background-subtracted array is raw y minus that array
C7_SubtractedIsRawMinusBackground ==
    ( /\ last_op.name = "RealTimePlot.set_background"
      /\ Len(plot_background.data) = Len(graphs[PRIMARY].raw_y) )
        => graphs[PRIMARY].bg_subtracted = Subtract(graphs[PRIMARY].raw_y, plot_background.data)

\* the steps that run set_raw_data on trace sel
IsSetRawData(sel) ==
    /\ last_op'.n = last_op.n + 1
    /\ last_op'.sel = sel
    /\ last_op'.name \in {"set_raw_data", "refresh"}

\* C8: after set_raw_data(x, y) the stored background is as long as y: it is
\* kept when its length was len(y) and is zeros of length len(y) otherwise
C8_BackgroundFollowsRawLength ==
    [][\A sel \in Selectors :
          IsSetRawData(sel)
          => LET y == graphs'[sel].raw_y
                 old == graphs[sel].background
             IN /\ Len(graphs'[sel].background) = Len(y)
                /\ graphs'[sel].background = IF Len(old) = Len(y) THEN old ELSE zeros_like(y)]_vars

\* set_raw_data has kept a non-zero background of the right length
C8_Witness ==
    \E sel \in Selectors :
        /\ last_op.name = "set_raw_data"
        /\ last_op.sel = sel
        /\ graphs[sel].raw_y # << >>
        /\ Len(graphs[sel].background) = Len(graphs[sel].raw_y)
        /\ graphs[sel].background # zeros_like(graphs[sel].raw_y)

\* C9: the raw x and raw y arrays of each trace have equal length in every
\* reachable state
C9_RawArraysEqualLength ==
    \A sel \in Selectors : Len(graphs[sel].raw_x) = Len(graphs[sel].raw_y)

\* C10: after every operation the calibrated x array of a trace is the cubic
\* of its coefficients applied to raw x in WAVELENGTH mode, and raw x in
\* PIXEL mode
C10_CalibratedFollowsUnitMode ==
    \A sel \in Selectors :
        graphs[sel].calibrated_x =
            IF graphs[sel].unit_type = WAVELENGTH
            THEN cubic_array(graphs[sel].raw_x, graphs[sel].fitting_params)
            ELSE graphs[sel].raw_x

----------------------------------------------------------------------------
(* Calibration properties (SpecCalib) *)

\* the steps that run the operation called name on trace sel
IsOp(name, sel) ==
    /\ last_op'.n = last_op.n + 1
    /\ last_op'.name = name
    /\ last_op'.sel = sel

\* what a trace shows: unit mode, axes limits and line data
Shown(g) == <<g.unit_type, g.xlim, g.ylim, g.line_x, g.line_y>>

\* C11: set_unit_type with the mode the trace is already in changes neither
\* the unit mode nor the axes limits nor the line data and causes no full
\* redraw; with the other mode it sets the mode and runs update_x_bounds
C11_SetUnitTypeSameModeIsNoOp ==
    [][\A sel \in Selectors :
          IsOp("set_unit_type", sel)
          => IF graphs[sel].unit_type = last_op'.arg
             THEN /\ Shown(graphs'[sel]) = Shown(graphs[sel])
                  /\ graphs'[CANVAS].draws = 0
             ELSE /\ graphs'[sel].unit_type = last_op'.arg
                  /\ graphs' = Graph_update_x_bounds([Begin EXCEPT ![sel].unit_type = last_op'.arg],
                                                     sel, TRUE).gs]_vars

\* C12: set_coefficients and set_fitting_params given a tuple of another
\* length than 4 raise a validation error and leave the trace's coefficients,
\* unit mode and axes limits as they were
C12_WrongLengthCoefficientsRejected ==
    [][\A sel \in Selectors :
          ( /\ IsOp("set_coefficients", sel) \/ IsOp("set_fitting_params", sel)
            /\ Len(last_op'.arg) # 4 )
          => /\ err' = "ValueError"
             /\ UNCHANGED <<graphs[sel].fitting_params, graphs[sel].unit_type,
                            graphs[sel].xlim, graphs[sel].ylim>>]_vars

\* C13: a fit that raises leaves the trace's unit mode, coefficients, axes
\* limits and line data as they were and has caused no redraw
C13_FailedFitChangesNothing ==
    [][\A sel \in Selectors :
          (IsOp("fit", sel) /\ err' # "none")
          => /\ Shown(graphs'[sel]) = Shown(graphs[sel])
             /\ graphs'[sel].fitting_params = graphs[sel].fitting_params
             /\ graphs'[CANVAS].draws = 0
             /\ graphs'[CANVAS].updates = 0]_vars

\* C14: the coefficients of a trace are (0, 1, 0, 0) at construction and
\* change only in a successful fit, set_coefficients or set_fitting_params
\* on that trace
C14_CoefficientsChangeOnlyByCalibration ==
    /\ \A sel \in Selectors : graphs[sel].fitting_params = <<0, 1, 0, 0>>
    /\ [][\A sel \in Selectors :
             graphs'[sel].fitting_params # graphs[sel].fitting_params
             => /\ IsOp("fit", sel) \/ IsOp("set_coefficients", sel) \/ IsOp("set_fitting_params", sel)
                /\ err' = "none"]_vars

\* C15: with the coefficients (0, 1, 0, 0) cubic is the identity on the pixel
\* range, and a trace in WAVELENGTH mode with these coefficients displays
\* its raw x after set_raw_data
C15_IdentityCoefficientsAreIdentity ==
    /\ \A x \in 0..(PIXELS - 1) : cubic(x, <<0, 1, 0, 0>>) = x
    /\ \A sel \in Selectors :
          ( /\ last_op.name \in {"set_raw_data", "refresh"}
            /\ last_op.sel = sel
            /\ graphs[sel].unit_type = WAVELENGTH
            /\ graphs[sel].fitting_params = <<0, 1, 0, 0>> )
          => graphs[sel].line_x = graphs[sel].raw_x

\* a trace in WAVELENGTH mode with the default coefficients shows a loaded x
C15_Witness ==
    \E sel \in Selectors :
        /\ last_op.name = "set_raw_data"
        /\ last_op.sel = sel
        /\ graphs[sel].unit_type = WAVELENGTH
        /\ graphs[sel].fitting_params = <<0, 1, 0, 0>>
        /\ graphs[sel].raw_x # << >>
        /\ graphs[sel].line_x = graphs[sel].raw_x
        /\ graphs[sel].xlim = set_lim(LimScale * SeqMin(graphs[sel].raw_x), LimScale * SeqMax(graphs[sel].raw_x))

\* control points a fit can succeed on: finite, parallel, at least two,
\* at distinct pixels
ValidPoints(in) ==
    /\ in.finite
    /\ Len(in.pixels) = Len(in.wavelengths)
    /\ Len(in.pixels) >= 2
    /\ Distinct(in.pixels)

\* the steps in which fit reaches curve_fit with valid control points
IsValidFit(sel) ==
    /\ IsOp("fit", sel)
    /\ ValidPoints(last_op'.arg)
    /\ Graph_set_unit_type(Begin, sel, WAVELENGTH).err = "none"

\* C16: fit stores a 4-tuple: through 2 points the line (a0, a1, 0, 0),
\* through 3 points the parabola (a0, a1, a2, 0), through 4 points the cubic
C16_FitDegreeFollowsPointCount ==
    [][\A sel \in Selectors :
          IsValidFit(sel)
          => LET c == graphs'[sel].fitting_params
                 in == last_op'.arg
             IN /\ Len(c) = 4
                /\ Interpolates(c, in.pixels, in.wavelengths)
                /\ Len(in.pixels) = 2 => (c[3] = 0 /\ c[4] = 0)
                /\ Len(in.pixels) = 3 => c[4] = 0]_vars

\* a fit through three points has stored a parabola, one through four a cubic
C16_Witness ==
    \E sel \in Selectors :
        /\ last_op.name = "fit"
        /\ last_op.sel = sel
        /\ err = "none"
        /\ \/ Len(last_op.arg.pixels) = 3 /\ graphs[sel].fitting_params = <<1, 0, 1, 0>>
           \/ Len(last_op.arg.pixels) = 4 /\ graphs[sel].fitting_params = <<0, 0, 0, 1>>

\* C17: through two control points at distinct pixels p1, p2 fit stores
\* (a0, a1, 0, 0) with a0 + a1*p1 = w1 and a0 + a1*p2 = w2; the points
\* (0, 400) and (4, 700) give (400, 75, 0, 0), which maps pixel 2 to 550
C17_TwoPointFitIsExact ==
    [][\A sel \in Selectors :
          (IsValidFit(sel) /\ Len(last_op'.arg.pixels) = 2)
          => LET c == graphs'[sel].fitting_params
                 p == last_op'.arg.pixels
                 w == last_op'.arg.wavelengths
             IN /\ c = <<c[1], c[2], 0, 0>>
                /\ c[1] + c[2] * p[1] = w[1]
                /\ c[1] + c[2] * p[2] = w[2]
                /\ (p = <<0, 4>> /\ w = <<400, 700>>)
                      => (c = <<400, 75, 0, 0>> /\ cubic(2, c) = 550)]_vars

\* the scenario: a live frame, then the fit through (0, 400) and (4, 700)
C17_Witness ==
    /\ last_op.name = "fit"
    /\ last_op.sel = PRIMARY
    /\ last_op.arg = ControlPoints(<<0, 4>>, <<400, 700>>, TRUE)
    /\ err = "none"
    /\ graphs[PRIMARY].fitting_params = <<400, 75, 0, 0>>
    /\ graphs[PRIMARY].raw_x = arange(PIXELS)
    /\ graphs[PRIMARY].line_x = cubic_array(arange(PIXELS), <<400, 75, 0, 0>>)

\* C18: a fit on control points with a repeated pixel position ends in an
\* error and stores no coefficients
C18_DegenerateFitFails ==
    [][\A sel \in Selectors :
          (IsOp("fit", sel) /\ ~Distinct(last_op'.arg.pixels))
          => /\ err' # "none"
             /\ graphs'[sel].fitting_params = graphs[sel].fitting_params]_vars

----------------------------------------------------------------------------
(* Crosshair properties (SpecCrosshair) *)

\* C19: in every state reached by set_position_index with any integer,
\* increment_index, clicks, resizes and set_raw_data, a trace with N > 0
\* samples (its line shows N x values) has its crosshair index in 0..N-1
C19_CrosshairIndexInRange ==
    \A sel \in Selectors :
        /\ Len(graphs[sel].line_x) = Len(graphs[sel].raw_x)
        /\ Len(graphs[sel].raw_x) > 0 => graphs[sel].index \in 0..(Len(graphs[sel].raw_x) - 1)

\* set_position_index was called with an index beyond the last sample and
\* has left the crosshair on the last sample
C19_Witness ==
    \E sel \in Selectors :
        /\ last_op.name = "set_position_index"
        /\ last_op.sel = sel
        /\ Len(graphs[sel].line_x) >= 2
        /\ last_op.arg > Len(graphs[sel].line_x) - 1
        /\ graphs[sel].index = Len(graphs[sel].line_x) - 1

\* what the crosshairs show and what the renderer holds
CrosshairView(gs) ==
    <<[s \in Selectors |-> <<gs[s].index, gs[s].glyph, gs[s].readout>>], gs[CANVAS].snapshot>>

\* C20: on a trace without samples set_position_index, increment_index and
\* the click return without effect: crosshair index, glyph and readout are
\* unchanged and the renderer neither updates nor draws
C20_EmptyTraceCrosshairNoEffect ==
    [][\A sel \in Selectors :
          ( /\ IsOp("set_position_index", sel) \/ IsOp("move_crosshair", sel) \/ IsOp("onclick", sel)
            /\ Len(graphs[sel].line_x) = 0 )
          => /\ CrosshairView(graphs') = CrosshairView(graphs)
             /\ err' = "none"
             /\ graphs'[CANVAS].updates = 0
             /\ graphs'[CANVAS].draws = 0]_vars

\* the crosshair of the empty reference trace was moved while the primary
\* trace shows a frame; the reference crosshair is as constructed
C20_Witness ==
    /\ last_op.name \in {"set_position_index", "move_crosshair", "onclick"}
    /\ last_op.sel = REFERENCE
    /\ graphs[REFERENCE].line_x = << >>
    /\ graphs[PRIMARY].line_x # << >>
    /\ graphs[REFERENCE].glyph = NoPosition
    /\ graphs[CANVAS].updates = 0

\* the distance, in halves, of the click at data_x2 / 2 from sample i of line_x
ClickDistance(data_x2, line_x, i) == Abs(data_x2 - 2 * line_x[i + 1])

\* C21: a click on the selected trace with N > 0 samples leaves the crosshair
\* index at a sample index in 0..N-1 whose displayed x is nearest to the
\* click, the lowest such index when several are equally near
C21_ClickSnapsToNearestSample ==
    [][\A sel \in Selectors :
          (IsOp("onclick", sel) /\ Len(graphs[sel].line_x) > 0)
          => LET x == graphs[sel].line_x
                 i == graphs'[sel].index
                 d(j) == ClickDistance(last_op'.arg, x, j)
             IN /\ sel = selected_graph
                /\ i \in 0..(Len(x) - 1)
                /\ \A j \in 0..(Len(x) - 1) : d(i) <= d(j) /\ (j < i => d(j) > d(i))
                /\ err' = "none" => /\ graphs'[sel].glyph.set
                                    /\ graphs'[sel].glyph.x
                                          = clamp(graphs[sel].xlim[1], graphs[sel].xlim[2], LimScale * x[i + 1])]_vars

\* a click halfway between two samples has put the crosshair on the lower one
C21_Witness ==
    \E sel \in Selectors :
        /\ last_op.name = "onclick"
        /\ last_op.sel = sel
        /\ err = "none"
        /\ Len(graphs[sel].line_x) >= 2
        /\ \E j \in 1..(Len(graphs[sel].line_x) - 1) :
              /\ graphs[sel].index < j
              /\ ClickDistance(last_op.arg, graphs[sel].line_x, j)
                    = ClickDistance(last_op.arg, graphs[sel].line_x, graphs[sel].index)
              /\ last_op.arg # 2 * graphs[sel].line_x[graphs[sel].index + 1]

----------------------------------------------------------------------------
(* Blit manager properties (SpecBlit) *)

\* C22: update never restores a missing background: when none has been
\* captured it takes the capture path of on_draw, and after any update or
\* on_draw a background snapshot exists
C22_UpdateNeverRestoresMissingBackground ==
    [][LET c == graphs'[CANVAS] IN
       /\ (c.updates > 0 \/ c.draws > 0) => c.snapshot.valid
       /\ c.restores <= c.updates
       /\ (~graphs[CANVAS].snapshot.valid /\ c.updates > 0 /\ c.draws = 0)
             => c.restores = c.updates - 1]_vars

\* an operation that found no snapshot has updated without a full draw: the
\* update has captured the snapshot and restored nothing
C22_Witness ==
    /\ last_op.n = 1
    /\ graphs[CANVAS].updates = 1
    /\ graphs[CANVAS].draws = 0
    /\ graphs[CANVAS].restores = 0
    /\ graphs[CANVAS].snapshot.valid

\* C23: an operation that changes the limits of an axes recaptures the
\* snapshot by a full draw before any update restores the snapshot: it
\* ends with a snapshot of the new static content and no update of it has
\* restored a snapshot that differs from the static content
C23_SnapshotRecapturedBeforeUpdate ==
    [][StaticContent(graphs') # StaticContent(graphs)
          => /\ graphs'[CANVAS].stale = 0
             /\ err' = "none" => /\ graphs'[CANVAS].draws > 0
                                 /\ graphs'[CANVAS].snapshot.lims = StaticContent(graphs')]_vars

\* the artists of the call that add_artists reaches before one of another
\* figure than the manager's: all of them when there is none
RegisteredPrefix(artists, figure) ==
    LET foreign == {k \in 1..Len(artists) : artists[k].figure # figure}
    IN IF foreign = {} THEN artists
       ELSE SubSeq(artists, 1, (CHOOSE k \in foreign : \A j \in foreign : k <= j) - 1)

\* C24: add_artists given an artist of another figure than the manager's
\* canvas raises RuntimeError and does not register that artist: the artist
\* list and the flag list grow only by the artists given before it
C24_ForeignArtistNotRegistered ==
    [][LET c == graphs[CANVAS]
           artists == last_op'.arg
           added == RegisteredPrefix(artists, c.figure)
       IN (IsOp("add_artists", PRIMARY) /\ added # artists)
          => /\ err' = "RuntimeError"
             /\ graphs'[CANVAS].artists = c.artists \o added
             /\ graphs'[CANVAS].visible_artists = c.visible_artists \o [k \in 1..Len(added) |-> TRUE]
             /\ \A k \in 1..Len(graphs'[CANVAS].artists) : graphs'[CANVAS].artists[k].figure = c.figure]_vars

\* add_artists was given an artist of the figure and then one of another
\* figure: the first is registered, the second is not
C24_Witness ==
    /\ last_op.name = "add_artists"
    /\ err = "RuntimeError"
    /\ last_op.arg = <<ExtraArtist("figure"), ExtraArtist("other")>>
    /\ Len(graphs[CANVAS].artists) = Len(graphs[CANVAS].visible_artists)
    /\ graphs[CANVAS].artists[Len(graphs[CANVAS].artists)] = ExtraArtist("figure")
    /\ \A k \in 1..Len(graphs[CANVAS].artists) : graphs[CANVAS].artists[k] # ExtraArtist("other")

----------------------------------------------------------------------------
(* Trace properties, continued *)

\* the x a trace displays for the raw x, by its unit mode and coefficients
DisplayedX(g, x) == IF g.unit_type = WAVELENGTH THEN cubic_array(x, g.fitting_params) ELSE x

\* the bounds check of set_raw_data: the least or the greatest displayed x
\* is more than tol away from the lower or the upper x limit
BoundsDiffer(display_x, xlim) ==
    \/ Abs(LimScale * SeqMin(display_x) - xlim[1]) > 1
    \/ Abs(LimScale * SeqMax(display_x) - xlim[2]) > 1

\* the x limits update_x_bounds sets for the raw x: the images of its least
\* and of its greatest element
XBounds(g, x) ==
    IF g.unit_type = WAVELENGTH
    THEN set_lim(LimScale * cubic(SeqMin(x), g.fitting_params), LimScale * cubic(SeqMax(x), g.fitting_params))
    ELSE set_lim(LimScale * SeqMin(x), LimScale * SeqMax(x))

\* C25: set_raw_data on the primary trace with a non-empty x: when the
\* bounds of the displayed x differ from the x limits by more than tol,
\* update_x_bounds runs and a full draw recaptures the snapshot; otherwise
\* there is no full draw, the limits stay, and the crosshair is placed and
\* an incremental update made
C25_BoundsCheckDecidesRedraw ==
    [][( /\ IsSetRawData(PRIMARY)
         /\ Len(graphs'[PRIMARY].raw_x) > 0
         /\ Len(graphs[PRIMARY].fitting_params) = 4 )
       => LET g == graphs[PRIMARY]
              display_x == DisplayedX(g, graphs'[PRIMARY].raw_x)
              c == graphs'[CANVAS]
          IN IF BoundsDiffer(display_x, g.xlim)
             THEN /\ graphs'[PRIMARY].xlim = XBounds(g, graphs'[PRIMARY].raw_x)
                  /\ c.draws > 0
                  /\ c.snapshot = [valid |-> TRUE, lims |-> StaticContent(graphs')]
             ELSE /\ graphs'[PRIMARY].xlim = g.xlim
                  /\ c.draws = 0
                  /\ c.updates > 0
                  /\ graphs'[PRIMARY].glyph.set]_vars

\* the arrays, the calibration and the crosshair index a trace stores, and
\* the x it displays within its limits
Stored(g) ==
    <<g.raw_x, g.raw_y, g.background, g.bg_subtracted, g.calibrated_x, g.fitting_params, g.unit_type,
      g.index, g.line_x, g.xlim, g.ylim>>

\* C26: configure_bg_subtraction(enabled) stores the flag and feeds the line
\* of the primary trace with the background-subtracted array when enabled
\* and with raw y otherwise; the stored arrays, the coefficients, the unit
\* mode and the crosshair index of either trace are unchanged
C26_ConfigureOnlySelectsLineData ==
    [][IsOp("configure_bg_subtraction", PRIMARY)
          => /\ \A s \in Selectors : Stored(graphs'[s]) = Stored(graphs[s])
             /\ graphs'[REFERENCE].line_y = graphs[REFERENCE].line_y
             /\ graphs'[PRIMARY].subtract_bg = last_op'.arg
             /\ graphs'[PRIMARY].line_y = IF last_op'.arg THEN graphs[PRIMARY].bg_subtracted
                                          ELSE graphs[PRIMARY].raw_y]_vars

\* with a background that is not zero stored, the subtraction was switched
\* off: the line shows raw y, the subtracted array is still stored
C26_Witness ==
    /\ last_op.name = "configure_bg_subtraction"
    /\ last_op.arg = FALSE
    /\ graphs[PRIMARY].raw_y # << >>
    /\ graphs[PRIMARY].bg_subtracted # graphs[PRIMARY].raw_y
    /\ graphs[PRIMARY].bg_subtracted = Subtract(graphs[PRIMARY].raw_y, graphs[PRIMARY].background)
    /\ graphs[PRIMARY].line_y = graphs[PRIMARY].raw_y

\* what a live frame must leave alone on the reference trace
ReferenceKept(g) ==
    <<g.raw_x, g.raw_y, g.background, g.bg_subtracted, g.fitting_params, g.unit_type, g.index>>

\* C27: a live frame puts the pixel indices 0..PIXELS-1 and the frame's
\* intensities into the raw data of the primary trace; the raw data, the
\* background, the coefficients, the unit mode and the crosshair index of
\* the reference trace, and the calibration of the primary, are unchanged
C27_LiveFrameOnlyReplacesPrimaryRawData ==
    [][IsOp("refresh", PRIMARY)
          => /\ graphs'[PRIMARY].raw_x = arange(PIXELS)
             /\ graphs'[PRIMARY].raw_y = last_op'.arg
             /\ ReferenceKept(graphs'[REFERENCE]) = ReferenceKept(graphs[REFERENCE])
             /\ graphs'[PRIMARY].fitting_params = graphs[PRIMARY].fitting_params
             /\ graphs'[PRIMARY].unit_type = graphs[PRIMARY].unit_type
             /\ UNCHANGED <<selected_graph, unit_control, plot_background>>]_vars

\* a live frame arrived while the reference trace shows a loaded spectrum
C27_Witness ==
    /\ last_op.name = "refresh"
    /\ err = "none"
    /\ graphs[PRIMARY].raw_x = arange(PIXELS)
    /\ graphs[PRIMARY].raw_y = last_op.arg
    /\ graphs[REFERENCE].raw_x # << >>
    /\ graphs[REFERENCE].raw_x # graphs[PRIMARY].raw_x
    /\ graphs[REFERENCE].glyph.set

----------------------------------------------------------------------------
(* Blit manager properties, continued (SpecBlit) *)

\* the artist at index i (from 0) is among those the last _draw_animated drew
WasDrawn(c, i) == \E k \in 1..Len(c.drawn) : c.drawn[k] = i

\* C28: the blit manager keeps one visibility flag per registered artist:
\* add_artists appends artists with their flags set, hide_artist and
\* show_artist change flags only, and an operation that draws (on_draw or
\* update) has drawn the artists whose flag is set and no other
C28_OneFlagPerArtist ==
    [][LET c == graphs[CANVAS]
           n == graphs'[CANVAS]
       IN /\ Len(n.artists) = Len(n.visible_artists)
          /\ IsOp("add_artists", PRIMARY)
                => LET added == RegisteredPrefix(last_op'.arg, c.figure)
                   IN /\ n.artists = c.artists \o added
                      /\ n.visible_artists = c.visible_artists \o [k \in 1..Len(added) |-> TRUE]
          /\ ~IsOp("add_artists", PRIMARY)
                => /\ n.artists = c.artists
                   /\ Len(n.visible_artists) = Len(c.visible_artists)
          /\ ((n.updates > 0 \/ n.draws > 0) /\ err' = "none")
                => \A i \in 0..(Len(n.artists) - 1) : WasDrawn(n, i) <=> n.visible_artists[i + 1]]_vars

\* an artist was added and an artist hidden, then the canvas was drawn: the
\* hidden artist was not drawn, the others were
C28_Witness ==
    LET c == graphs[CANVAS]
    IN /\ Len(c.artists) > Len(primary_indices) + Len(reference_indices)
       /\ c.draws > 0
       /\ c.updates > 0
       /\ err = "none"
       /\ \E i \in 0..(Len(c.artists) - 1) : ~c.visible_artists[i + 1] /\ ~WasDrawn(c, i)
       /\ \E i \in 0..(Len(c.artists) - 1) : c.visible_artists[i + 1] /\ WasDrawn(c, i)

----------------------------------------------------------------------------
(* Crosshair properties, continued (SpecCrosshair) *)

\* C29: move_crosshair(delta) acts on the selected trace only; when that
\* trace shows N > 0 samples its crosshair index becomes the previous index
\* plus delta, held at 0 and at N-1, and the crosshair index of the other
\* trace is unchanged
C29_IncrementSaturates ==
    [][\A sel \in Selectors :
          (IsOp("move_crosshair", sel) /\ Len(graphs[sel].line_x) > 0)
          => LET last == Len(graphs[sel].line_x) - 1
                 target == graphs[sel].index + last_op'.arg
             IN /\ sel = selected_graph
                /\ graphs'[sel].index = IF target < 0 THEN 0 ELSE IF target > last THEN last ELSE target
                /\ \A other \in Selectors \ {sel} : graphs'[other].index = graphs[other].index]_vars

\* the crosshair has been moved right on a trace of two or more samples
\* and stands on the last sample
C29_Witness ==
    \E sel \in Selectors :
        /\ last_op.name = "move_crosshair"
        /\ last_op.sel = sel
        /\ last_op.arg = 1
        /\ err = "none"
        /\ Len(graphs[sel].line_x) >= 2
        /\ graphs[sel].index = Len(graphs[sel].line_x) - 1
        /\ graphs[sel].glyph.x = LimScale * graphs[sel].line_x[Len(graphs[sel].line_x)]

----------------------------------------------------------------------------
(* Calibration properties, continued (SpecCalib) *)

\* the calibration and the raw data of a trace
Calibration(g) == <<g.fitting_params, g.unit_type, g.raw_x, g.raw_y>>

\* C30: fit and set_coefficients with the selector of one trace leave the
\* coefficients, the unit mode and the raw data of the other trace
\* unchanged; with a selector that is neither PRIMARY nor REFERENCE they
\* raise ValueError and change nothing
C30_TracesCalibratedIndependently ==
    [][\A sel \in Selectors \cup BadSelectors :
          (IsOp("fit", sel) \/ IsOp("set_coefficients", sel))
          => IF sel \in Selectors
             THEN \A other \in Selectors \ {sel} : Calibration(graphs'[other]) = Calibration(graphs[other])
             ELSE /\ err' = "ValueError"
                  /\ graphs' = Begin
                  /\ UNCHANGED <<plot_background, selected_graph, unit_control>>]_vars

\* the primary trace was calibrated while the reference trace holds a
\* loaded spectrum with the coefficients of the construction
C30_Witness ==
    /\ last_op.name \in {"fit", "set_coefficients"}
    /\ last_op.sel = PRIMARY
    /\ err = "none"
    /\ graphs[PRIMARY].fitting_params # <<0, 1, 0, 0>>
    /\ graphs[PRIMARY].unit_type = WAVELENGTH
    /\ graphs[REFERENCE].fitting_params = <<0, 1, 0, 0>>
    /\ graphs[REFERENCE].raw_x # << >>
    /\ graphs[REFERENCE].xlim = graphs[PRIMARY].xlim

----------------------------------------------------------------------------
(* Live display properties (SpecLive) *)

\* C31: set_raw_data on the primary trace with the raw x it holds (N > 0),
\* while the x limits are those update_x_bounds sets for that x in the unit
\* mode and with the coefficients of the trace, takes the incremental path:
\* no full draw, the limits and the snapshot stay, one incremental update
C31_SameBoundsTakeIncrementalPath ==
    [][LET g == graphs[PRIMARY]
       IN ( /\ IsSetRawData(PRIMARY)
            /\ Len(g.raw_x) > 0
            /\ graphs'[PRIMARY].raw_x = g.raw_x
            /\ Len(graphs'[PRIMARY].raw_y) = Len(g.raw_x)
            /\ Len(g.fitting_params) = 4
            /\ g.xlim = XBounds(g, g.raw_x)
            /\ err = "none" )
          => /\ err' = "none"
             /\ graphs'[CANVAS].draws = 0
             /\ graphs'[CANVAS].updates > 0
             /\ graphs'[PRIMARY].xlim = g.xlim
             /\ graphs'[CANVAS].snapshot = graphs[CANVAS].snapshot]_vars

\* C32: after set_raw_data has returned for a trace with N > 0 samples, the
\* x limits of its axes are the least and the greatest x its line displays,
\* within tol
C32_LimitsSpanDisplayedX ==
    [][\A sel \in Selectors :
          ( /\ IsSetRawData(sel)
            /\ err' = "none"
            /\ Len(graphs'[sel].raw_x) > 0 )
          => ~BoundsDiffer(graphs'[sel].line_x, graphs'[sel].xlim)]_vars

----------------------------------------------------------------------------
(* Background subtraction properties, continued (SpecSubtract) *)

\* the y array the subtraction flag of the trace selects
SelectedY(g) == IF g.subtract_bg THEN g.bg_subtracted ELSE g.raw_y

\* C33: when set_raw_data, set_background or configure_bg_subtraction has
\* returned on a trace, the y data of its line is the background-subtracted
\* array if the subtraction is enabled and raw y if it is disabled
C33_LineShowsSelectedY ==
    [][\A sel \in Selectors :
          ( /\ \/ IsSetRawData(sel)
               \/ IsOp("Graph.set_background", sel)
               \/ IsOp("configure_bg_subtraction", sel)
            /\ err' = "none" )
          => graphs'[sel].line_y = SelectedY(graphs'[sel])]_vars

\* C34: get_background_subtracted returns the background-subtracted y of
\* the primary trace, the fourth component of Graph.get_data
C34_GetterReturnsBackgroundSubtracted ==
    RealTimePlot_get_background_subtracted(graphs) = Graph_get_data(graphs[PRIMARY])[4]

----------------------------------------------------------------------------
(* Visibility of the traces (SpecBlit) *)

\* the positions (from 1) in the blit manager of the artists Graph.get_artists
\* returns for trace s
ArtistPositions(c, s) ==
    {k \in 1..Len(c.artists) : \E j \in 1..3 : c.artists[k] = Graph_get_artists(s)[j]}

\* C35: toggle_primary_plot and toggle_reference_plot invert the hidden flag
\* of their trace; afterwards the line and the two crosshair lines of that
\* trace are all hidden if the flag is true and all visible otherwise, and
\* the hidden flag of the other trace and the visibility flags of all other
\* artists are unchanged
C35_ToggleSetsOwnArtistsOnly ==
    [][\A s \in Selectors :
          (IsOp("toggle_primary_plot", s) \/ IsOp("toggle_reference_plot", s))
          => LET c == graphs[CANVAS]
                 n == graphs'[CANVAS]
                 own == ArtistPositions(c, s)
             IN /\ s = IF last_op'.name = "toggle_primary_plot" THEN PRIMARY ELSE REFERENCE
                /\ graphs'[s].hidden = ~graphs[s].hidden
                /\ Cardinality(own) = 3
                /\ \A k \in own : n.visible_artists[k] = ~graphs'[s].hidden
                /\ \A k \in (1..Len(c.artists)) \ own : n.visible_artists[k] = c.visible_artists[k]
                /\ \A other \in Selectors \ {s} : graphs'[other].hidden = graphs[other].hidden]_vars

\* the primary trace has been hidden and shown again while the reference
\* trace is hidden: the artists of the one are visible and drawn, those of
\* the other are not
C35_Witness ==
    LET c == graphs[CANVAS]
    IN /\ last_op.name = "toggle_primary_plot"
       /\ last_op.n = 3
       /\ ~graphs[PRIMARY].hidden
       /\ graphs[REFERENCE].hidden
       /\ \A k \in ArtistPositions(c, PRIMARY) : c.visible_artists[k] /\ WasDrawn(c, k - 1)
       /\ \A k \in ArtistPositions(c, REFERENCE) : ~c.visible_artists[k] /\ ~WasDrawn(c, k - 1)

----------------------------------------------------------------------------
(* Calibration properties, continued (SpecCalib) *)

\* C36: when fit or set_coefficients on the primary trace has returned, the
\* primary trace is in WAVELENGTH mode and the x limits of the reference
\* axes are those of the primary axes; fit and set_coefficients on the
\* reference trace leave the x limits of the primary axes unchanged
C36_ReferenceFollowsPrimaryLimits ==
    [][/\ ( /\ IsOp("fit", PRIMARY) \/ IsOp("set_coefficients", PRIMARY)
            /\ err' = "none" )
          => /\ graphs'[PRIMARY].unit_type = WAVELENGTH
             /\ graphs'[REFERENCE].xlim = graphs'[PRIMARY].xlim
       /\ (IsOp("fit", REFERENCE) \/ IsOp("set_coefficients", REFERENCE))
          => graphs'[PRIMARY].xlim = graphs[PRIMARY].xlim]_vars

\* the primary trace holds a live frame and was calibrated with other
\* coefficients than the identity: both axes have the calibrated limits
C36_Witness ==
    /\ last_op.name \in {"fit", "set_coefficients"}
    /\ last_op.sel = PRIMARY
    /\ err = "none"
    /\ graphs[PRIMARY].raw_x = arange(PIXELS)
    /\ graphs[PRIMARY].unit_type = WAVELENGTH
    /\ graphs[PRIMARY].xlim = XBounds(graphs[PRIMARY], graphs[PRIMARY].raw_x)
    /\ graphs[PRIMARY].xlim # <<0, LimScale * (PIXELS - 1)>>
    /\ graphs[REFERENCE].xlim = graphs[PRIMARY].xlim

----------------------------------------------------------------------------
(* Frame grabbing properties (SpecGrab) *)

\* the step is a frame-grab command (start_frame_grab or
\* get_device_spectrometer_frame_data) of grabber k
IssuesCommand(k) ==
    /\ k \in 1..Len(grabbers)
    /\ grabbers[k].pc \in {"start_frame_grab", "get_frame_data"}
    /\ grabbers'[k].pc # grabbers[k].pc

\* C37: grab_spectrum_frames while the previous grabber is active raises
\* and starts no grabber, and a grabber issues no frame-grab command once a
\* newer grabber has been started
C37_OneGrabberIssuesCommands ==
    [][/\ (last_op'.name = "grab_spectrum_frames" /\ LineCamera_is_grabbing_frames(grabbers))
          => (err' = "Exception" /\ grabbers' = grabbers)
       /\ \A k \in 1..MaxGrabbers : IssuesCommand(k) => k = Len(grabbers)]_vars

\* grabber k exists and grabs a finite number of frames
IsFiniteGrab(k) == k <= Len(grabbers) /\ ~grabbers[k].run_forever

\* C38: a grabber of n >= 0 frames issues at most n start_frame_grab
\* commands and its run ends with the active flag False; once the flag is
\* False the loop test ends the loop; grab_spectrum_frames is accepted when
\* the last grabber is not active; and every such grabber eventually is not
\* active, with or without a stop call
C38_FiniteGrabTerminates ==
    /\ [](\A k \in 1..MaxGrabbers :
             IsFiniteGrab(k) => /\ grabbers[k].grabs <= grabbers[k].frames
                                /\ grabbers[k].pc = "done" => ~grabbers[k].active)
    /\ [][/\ \A k \in 1..MaxGrabbers :
                (IsFiniteGrab(k) /\ grabbers[k].pc = "test" /\ ~grabbers[k].active /\ grabbers'[k].pc # "test")
                => grabbers'[k].pc = "exit"
          /\ (last_op'.name = "grab_spectrum_frames" /\ grabbers' # grabbers)
                => (~LineCamera_is_grabbing_frames(grabbers) /\ err' = "none")
          /\ (last_op'.name = "grab_spectrum_frames" /\ ~LineCamera_is_grabbing_frames(grabbers)
                  /\ (grabbers' # grabbers \/ err' # err \/ last_op' # last_op))
                => (err' = "none" /\ Len(grabbers') = Len(grabbers) + 1)]_vars
    /\ \A k \in 1..MaxGrabbers : IsFiniteGrab(k) ~> (IsFiniteGrab(k) /\ ~grabbers[k].active)

\* a grab of two frames has ended by itself after two acquisitions, no stop
\* was called, and the next grab has been accepted
C38_Witness ==
    /\ Len(grabbers) = 2
    /\ grabbers[1].frames = 2
    /\ grabbers[1].grabs = 2
    /\ grabbers[1].pc = "done"
    /\ ~grabbers[1].active
    /\ ~grabbers[1].killed

----------------------------------------------------------------------------
(* Frame bridge properties, continued (SpecBridge) *)

\* the receive_background closures in the callback list
Registered(cbs) == {cbs[j] : j \in {j \in 1..Len(cbs) : cbs[j].kind = "receive_background"}}

\* C39: a receive_background closure that add_frame invokes is no longer
\* registered afterwards, and when add_frame returns no closure is
\* registered that was registered before the frame arrived: each one was
\* invoked with that frame
C39_BackgroundCallbacksRunOnFirstFrame ==
    [][/\ last_op'.name = "receive_background"
            => frame_callbacks[hw.i + 1] \notin Registered(frame_callbacks')
       /\ last_op'.name = "add_frame_return"
            => \A cb \in Registered(frame_callbacks') : cb.id >= hw.registered]_vars

====
